---- MODULE Spec2Model ----
(***************************************************************************)
(* A model of the documentation crawler of McpDocServer:                   *)
(*   scripts/task-manager.js  TaskManager (frontier, scheduler, save       *)
(*                            pipeline)                                    *)
(*   scripts/browser-manager.js  BrowserManager (the pages it hands out)   *)
(*   server.js                the MCP server: search_docs, get_doc_detail  *)
(*   the crawl script         main                                         *)
(*   the source configuration docSources, crawlerConfig                    *)
(*                                                                         *)
(* Specifications:                                                         *)
(*   Spec      the crawl run: main, addSource, processUrlQueue and the     *)
(*             processUrl tasks it dispatches; a step is the code between  *)
(*             two awaits of one async function.                           *)
(*   SpecSave  the save pipeline of one source's store file, run by two    *)
(*             processes: savePage, the debounce timer and the file system *)
(*             calls of _performActualSave, one step per awaited call; a   *)
(*             process may be killed at any step of a flush.               *)
(*   SpecMatch one call of isComponentLink, over sources with any of a few *)
(*             include and exclude pattern lists.                          *)
(*   SpecMerge the flushes of one writer that nothing interrupts, over two *)
(*             pages whose contents share some of their words.             *)
(*   SpecLoad  the save pipeline of SpecSave, started on a store file that *)
(*             no parse can read.                                          *)
(*   SpecStore one savePage and the flush that follows it, over titles and *)
(*             contents with characters that JSON escapes.                 *)
(*   SpecNormalize  getNormalizedUrl applied twice to a URL.               *)
(*   SpecServer  the MCP server: its start, the tool calls and the changes *)
(*             of the docs directory between them.                         *)
(*   SpecErrorPage  the last failed attempt on a URL whose page an earlier *)
(*             run has stored.                                             *)
(*   SpecRetry  the retry loop of processUrl, over configured retry counts *)
(*             and delays.                                                 *)
(*   SpecEnqueue  one processUrl task and the link loop of another task.   *)
(*   SpecLoading  ensureDocsLoaded called by the server start and by       *)
(*             requests handled at the same time, one step between awaits. *)
(***************************************************************************)
EXTENDS Integers, Sequences, FiniteSets, TLC

\* ------------------------------------------------------------------ bounds

\* crawlerConfig.maxConcurrency ranges over 1..MaxConcurrency.
MaxConcurrency == 2

\* savePage is called at most MaxSaves times, by all processes together.
MaxSaves == 3

\* At most MaxCrashes processes are killed.
MaxCrashes == 1

\* ---------------------------------------------------------------- constants

\* processUrl: const maxRetries = 3
maxRetries == 3

\* ------------------------------------------------------------------- URLs

\* A URL string https://<host>/<path>[/...][?query][#hash]: the path's
\* segments, the number of slashes that end the string's path, and whether a
\* query and a fragment follow.
Url(h, p, s, q, f) ==
    [host |-> h, path |-> p, slashes |-> s, query |-> q, hash |-> f]

\* `${protocol}//${hostname}${pathname}` and then .replace(/\/$/, ''): the
\* query and the fragment go, and ONE trailing slash goes.
getNormalizedUrl(u) ==
    [host |-> u.host, path |-> u.path,
     slashes |-> IF u.slashes > 0 THEN u.slashes - 1 ELSE 0,
     query |-> FALSE, hash |-> FALSE]

\* new URL(url).pathname, then .split('#')[0].replace(/\/$/, ''): the path's
\* segments and the slashes left at its end. The pathname of a URL with an
\* empty path is "/".
pathWithoutTrailingSlash(u) ==
    LET s == IF u.path = <<>> /\ u.slashes = 0 THEN 1 ELSE u.slashes
    IN  [path |-> u.path, slashes |-> IF s > 0 THEN s - 1 ELSE 0]

\* ---------------------------------------------------------- configuration

\* An exclude pattern is a RegExp and an include pattern a wildcard string
\* turned into a RegExp; neither is anchored, so it matches when its text
\* occurs in the path. A pattern is modelled by the path segments it names,
\* which must occur next to each other in the path.
RECURSIVE OccursAt(_, _, _)
OccursAt(pat, path, i) ==
    IF i + Len(pat) - 1 > Len(path) THEN FALSE
    ELSE IF \A k \in 1..Len(pat) : path[i + k - 1] = pat[k] THEN TRUE
    ELSE OccursAt(pat, path, i + 1)

PatternTest(pat, p) == OccursAt(pat, p.path, 1)

\* config/doc-sources.js: two sources on different hosts, the first with a
\* start URL that ends in a slash and one exclude pattern.
docSources ==
    << [name |-> "alpha", url |-> Url("x", <<"a">>, 1, FALSE, FALSE),
        includePatterns |-> <<>>, excludePatterns |-> << <<"v1">> >>],
       [name |-> "beta", url |-> Url("y", <<"d">>, 0, FALSE, FALSE),
        includePatterns |-> << <<"d">> >>, excludePatterns |-> <<>>] >>

SourceNames == {docSources[i].name : i \in DOMAIN docSources}

\* The hrefs a rendered page may hold, in document order: a page of the first
\* host written with two trailing slashes, a query and a fragment, the same
\* page written plainly, a page an exclude pattern of the first source
\* matches, and a page of the second host that no include pattern of the
\* second source matches.
LinkUniverse ==
    << Url("x", <<"a", "b">>, 2, TRUE, TRUE),
       Url("x", <<"a", "b">>, 0, FALSE, FALSE),
       Url("x", <<"v1", "c">>, 0, FALSE, FALSE),
       Url("y", <<"e">>, 0, FALSE, FALSE) >>

RECURSIVE SubSeqs(_)
SubSeqs(s) ==
    IF s = <<>> THEN {<<>>}
    ELSE LET rest == SubSeqs(Tail(s))
         IN  rest \cup {<<Head(s)>> \o r : r \in rest}

LinkChoices == SubSeqs(LinkUniverse)

\* ------------------------------------------------------------ JS Map helpers

\* A Map in insertion order: a sequence of [key, value] entries.
MapHas(m, k) == \E i \in DOMAIN m : m[i].key = k

MapGet(m, k) == m[CHOOSE i \in DOMAIN m : m[i].key = k].value

MapSet(m, k, v) ==
    IF MapHas(m, k)
    THEN [i \in DOMAIN m |-> IF m[i].key = k THEN [key |-> k, value |-> v] ELSE m[i]]
    ELSE Append(m, [key |-> k, value |-> v])

MapDelete(m, k) == SelectSeq(m, LAMBDA e : e.key # k)

MapKeys(m) == {m[i].key : i \in DOMAIN m}

RECURSIVE Take(_, _)
Take(s, n) == IF n <= 0 \/ s = <<>> THEN <<>> ELSE <<Head(s)>> \o Take(Tail(s), n - 1)

\* --------------------------------------------------------------- the state

VARIABLES
    \* ---- the crawl (one TaskManager)
    todo,            \* main: the sources still to be passed to addSource
    maxConcurrency,  \* this.config.maxConcurrency
    tasks,           \* this.tasks: the task groups, in insertion order
    pages,           \* taskGroup.pages of each source name: normalized URL -> kind
    pendingUrls,     \* this.pendingUrls: Map url -> [status]
    processingUrls,  \* this.processingUrls
    activePages,     \* this.activePages
    batch,           \* the processUrl tasks of the running Promise.allSettled
    qpc,             \* main / processUrlQueue: "init", "main", "queue",
                     \* "returned", or "aborted" in the catch block of main
    initialized,     \* this.initialized
    browserPages,    \* browserManager.pages: the URLs that have a page, each
                     \* page named by the URL it was created for
    closedPages,     \* the pages of browserManager.pages that were closed
    saveWaiters,     \* per source: the tasks awaiting the source's save promise
    savePageCalls,   \* history: the savePage(source, url, kind) calls made
    attempts,        \* history: normalized URL -> fetch attempts begun
    recorded,        \* history: normalized URL -> taskGroup.pages.set calls
    everPending,     \* history: the keys ever set in pendingUrls
    \* ---- the save pipeline of one source, in each crawler process
    savedPages,      \* this.savedPages.get(sourceName): url -> pageData
    pendingSaves,    \* this.pendingSaves.get(sourceName), in insertion order
    savePromises,    \* this._savePromises.has(sourceName)
    fpc,             \* where the timer callback and its _performActualSave stand
    flushUrls,       \* _performActualSave: const pendingUrls (the snapshot)
    existingFile,    \* _performActualSave: the result of fs.access(outputPath)
    existingData,    \* _performActualSave: existingData.pages, then merged
    holdsLock,       \* the flush created the lock file and has not yet removed it
    \* ---- the docs directory, shared by the processes
    lockFile,        \* <store>.lock
    storeFile,       \* <source>-docs.json
    tempFile,        \* <store>.new
    bakFile,         \* <store>.bak
    \* ---- history of the save pipeline
    timers,          \* per process: timer callbacks scheduled or running
    flushRuns,       \* per process: _performActualSave calls of the current timer
    window,          \* per process: urls passed to savePage before the timer fired
    unhandled,       \* per process: urls passed to savePage, not yet merged or skipped
    staleSeen,       \* a lock file has grown older than the staleness threshold
    nSaves,          \* savePage calls made
    nCrashes,        \* processes killed
    errorBakFiles,   \* the texts copied to <store>.error-<time>.bak files
    \* ---- one call of a function of the TaskManager
    callArgs,        \* the function called and its arguments
    callResult,      \* <<>> before the call returns, then << its result >>
    \* ---- the MCP server (server.js) and the docs directory it reads
    docData,         \* const docData: lower-case source name -> document
                     \* data, its keys in insertion order
    docsLoaded,      \* let docsLoaded
    docsDir,         \* the .json files of the docs directory: name -> text
    nDirChanges,     \* files written to or removed from the docs directory
    isLoadingDocs,   \* let isLoadingDocs
    loadCalls        \* the calls of ensureDocsLoaded, in the order they began

crawlVars == << todo, maxConcurrency, tasks, pages, pendingUrls, processingUrls,
                activePages, batch, qpc, saveWaiters, savePageCalls, attempts,
                recorded, everPending, initialized, browserPages, closedPages >>

saveVars == << savedPages, pendingSaves, savePromises, fpc, flushUrls,
               existingFile, existingData, holdsLock, lockFile, storeFile,
               tempFile, bakFile, timers, flushRuns, window, unhandled,
               staleSeen, nSaves, nCrashes, errorBakFiles >>

callVars == << callArgs, callResult >>

serverVars == << docData, docsLoaded, docsDir, nDirChanges, isLoadingDocs,
                 loadCalls >>

vars == << crawlVars, saveVars, callVars, serverVars >>

\* The TaskManager's fields that processUrl reads and writes, as one record.
Manager ==
    [pendingUrls |-> pendingUrls, processingUrls |-> processingUrls,
     activePages |-> activePages, pages |-> pages, attempts |-> attempts,
     recorded |-> recorded]

Count(f, k) == IF k \in DOMAIN f THEN f[k] ELSE 0

Bump(f, k) == (k :> (Count(f, k) + 1)) @@ f

\* ------------------------------------------------------- pattern matching

\* getTaskGroupByUrl: the first task group whose start URL has the URL's
\* hostname, as an index into tasks; 0 for null.
getTaskGroupByUrl(u) ==
    IF \E i \in DOMAIN tasks : tasks[i].url.host = u.host
    THEN CHOOSE i \in DOMAIN tasks :
            /\ tasks[i].url.host = u.host
            /\ \A j \in 1..(i - 1) : tasks[j].url.host # u.host
    ELSE 0

\* matchesExclude with patterns that match no path.
matchesExcludeNone(g, u) == FALSE

\* taskGroup.excludePatterns.some(pattern => pattern.test(path))
matchesExclude(g, u) ==
    \E k \in DOMAIN g.excludePatterns :
        PatternTest(g.excludePatterns[k], pathWithoutTrailingSlash(u))

\* isComponentLink with the include patterns looked at first: a path that an
\* include pattern matches is taken, whatever the exclude patterns say.
isComponentLinkIncludeFirst(u) ==
    LET gi == getTaskGroupByUrl(u)
        g == tasks[gi]
        p == pathWithoutTrailingSlash(u)
    IN  IF gi = 0 THEN FALSE
        ELSE IF \E k \in DOMAIN g.includePatterns :
                    PatternTest(g.includePatterns[k], p) THEN TRUE
        ELSE IF matchesExclude(g, u) THEN FALSE
        ELSE Len(g.includePatterns) = 0

\* isComponentLink without step 2: the include patterns are not looked at.
isComponentLinkExcludeOnly(u) ==
    LET gi == getTaskGroupByUrl(u)
    IN  IF gi = 0 THEN FALSE ELSE ~ matchesExclude(tasks[gi], u)

isComponentLink(u) ==
    LET gi == getTaskGroupByUrl(u)
        g == tasks[gi]
        p == pathWithoutTrailingSlash(u)
    IN  IF gi = 0 THEN FALSE
        ELSE IF matchesExclude(g, u) THEN FALSE
        ELSE IF Len(g.includePatterns) > 0
                /\ ~ \E k \in DOMAIN g.includePatterns :
                        PatternTest(g.includePatterns[k], p)
             THEN FALSE
        ELSE TRUE

\* ---------------------------------------------------------------- processUrl

\* One pass of the retry loop up to its first await: the URL is put into
\* processingUrls and activePages is incremented.
beginAttempt(M, n) ==
    [M EXCEPT !.processingUrls = @ \cup {n},
              !.activePages = @ + 1,
              !.attempts = Bump(@, n)]

\* The finally block after its await: the URL leaves processingUrls and
\* activePages is decremented.
endAttempt(M, n) ==
    [M EXCEPT !.processingUrls = @ \ {n}, !.activePages = @ - 1]

\* processUrlEnter with an entry check that looks at taskGroup.pages only,
\* not at processingUrls.
processUrlEnterUnguarded(M, url, gi) ==
    LET n == getNormalizedUrl(url)
    IN  IF n \in DOMAIN M.pages[tasks[gi].name]
        THEN [M |-> M, started |-> FALSE]
        ELSE [M |-> beginAttempt(M, n), started |-> TRUE]

\* processUrl(url, tasks[gi]) up to its first await: the entry check, and
\* the first pass of the retry loop when the check lets the URL through.
processUrlEnter(M, url, gi) ==
    LET n == getNormalizedUrl(url)
    IN  IF n \in M.processingUrls \/ n \in DOMAIN M.pages[tasks[gi].name]
        THEN [M |-> M, started |-> FALSE]
        ELSE [M |-> beginAttempt(M, n), started |-> TRUE]

NewTask(url, gi, pc) ==
    [url |-> url, gi |-> gi, pc |-> pc, retryCount |-> 0, page |-> FALSE,
     links |-> <<>>, kind |-> "none"]

\* The callback processUrlQueue maps over its batch, from task group gi on:
\* for (const [name, taskGroup] of this.tasks) await this.processUrl(url,
\* taskGroup). A call the entry check ends at once is followed by the next
\* task group's; the callback stops at the first call that starts a fetch, or
\* is done after the last task group.
RECURSIVE runGroups(_, _, _)
runGroups(M, url, gi) ==
    IF gi > Len(tasks) THEN [M |-> M, task |-> NewTask(url, gi, "done")]
    ELSE LET r == processUrlEnter(M, url, gi)
         IN  IF r.started THEN [M |-> r.M, task |-> NewTask(url, gi, "fetch")]
             ELSE runGroups(M, url, gi + 1)

\* The link loop of processUrl, run when the page was saved: each same-host
\* link is normalized, passed through isComponentLink and the exclude
\* patterns of its owner, and set pending unless it is in processingUrls, in
\* its owner's pages or already pending.
RECURSIVE addLinks(_, _)
addLinks(M, links) ==
    IF links = <<>> THEN M
    ELSE LET normalizedLink == getNormalizedUrl(Head(links))
             gi == getTaskGroupByUrl(normalizedLink)
             take ==
                /\ isComponentLink(normalizedLink)
                /\ ~ matchesExclude(tasks[gi], normalizedLink)
                /\ normalizedLink \notin M.processingUrls
                /\ normalizedLink \notin DOMAIN M.pages[tasks[gi].name]
                /\ ~ MapHas(M.pendingUrls, normalizedLink)
             M1 == IF take
                   THEN [M EXCEPT !.pendingUrls =
                            MapSet(@, normalizedLink, [status |-> "pending"])]
                   ELSE M
         IN  addLinks(M1, Tail(links))

\* links.filter(link => new URL(link).hostname === baseUrl.hostname)
sameDomainLinks(links, g) == SelectSeq(links, LAMBDA l : l.host = g.url.host)

\* ------------------------------------------------------------ processUrlQueue

\* selectPending without .slice(0, availableSlots): every pending URL is
\* dispatched at once.
selectPendingUnsliced(pending, availableSlots) ==
    SelectSeq(pending, LAMBDA e : e.value.status = "pending")

\* Array.from(this.pendingUrls.entries()).filter(status === 'pending')
\*     .slice(0, availableSlots)
selectPending(pending, availableSlots) ==
    Take(SelectSeq(pending, LAMBDA e : e.value.status = "pending"), availableSlots)

\* pendingUrls.map(async ([url, state]) => { this.pendingUrls.delete(url);
\* for (...) await this.processUrl(url, taskGroup) }): the callbacks run one
\* after the other, each up to its first pending await.
RECURSIVE dispatch(_, _, _)
dispatch(M, selected, acc) ==
    IF selected = <<>> THEN [M |-> M, batch |-> acc]
    ELSE LET url == Head(selected).key
             M1 == [M EXCEPT !.pendingUrls = MapDelete(@, url)]
             r == runGroups(M1, url, 1)
         IN  dispatch(r.M, Tail(selected), Append(acc, r.task))

Store(M) ==
    /\ pendingUrls' = M.pendingUrls
    /\ processingUrls' = M.processingUrls
    /\ activePages' = M.activePages
    /\ pages' = M.pages
    /\ attempts' = M.attempts
    /\ recorded' = M.recorded

\* ------------------------------------------------------------------ actions

CrawlInit ==
    /\ todo \in {docSources} \cup {<<docSources[i]>> : i \in DOMAIN docSources}
    /\ maxConcurrency \in 1..MaxConcurrency
    /\ tasks = <<>>
    /\ pages = [s \in SourceNames |-> <<>>]
    /\ pendingUrls = <<>>
    /\ processingUrls = {}
    /\ activePages = 0
    /\ batch = <<>>
    /\ qpc = "init"
    /\ initialized = FALSE
    /\ browserPages = {}
    /\ closedPages = {}
    /\ saveWaiters = [s \in SourceNames |-> <<>>]
    /\ savePageCalls = {}
    /\ attempts = <<>>
    /\ recorded = <<>>
    /\ everPending = {}

\* Where main goes on after await taskManager.init() when init swallows the
\* error of browserManager.init() and returns: to addSource, as after a
\* start of the browser.
afterInitSwallowed(ok) == "main"

\* Where main goes on after await taskManager.init(): to addSource, or, when
\* init has thrown, to its catch block, which closes the browser and leaves
\* the loop.
afterInit(ok) == IF ok THEN "main" ELSE "aborted"

\* main: await taskManager.init(). browserManager.init() starts the browser
\* (ok) or throws; init sets the flag after a start and rethrows the error.
init(ok) ==
    /\ qpc = "init"
    /\ initialized' = ok
    /\ qpc' = afterInit(ok)
    /\ UNCHANGED << todo, maxConcurrency, tasks, pages, pendingUrls,
                    processingUrls, activePages, batch, saveWaiters,
                    savePageCalls, attempts, recorded, everPending,
                    browserPages, closedPages >>
    /\ UNCHANGED << saveVars, callVars, serverVars >>

\* main: await taskManager.addSource(source), for the chosen source or for
\* every source of docSources.
addSource ==
    /\ qpc = "main"
    /\ todo # <<>>
    /\ LET source == Head(todo)
       IN  /\ tasks' = Append(tasks, source)
           /\ pages' = [pages EXCEPT ![source.name] = <<>>]
           /\ pendingUrls' = MapSet(pendingUrls, source.url, [status |-> "pending"])
    /\ todo' = Tail(todo)
    /\ UNCHANGED << maxConcurrency, processingUrls, activePages, batch, qpc,
                    saveWaiters, savePageCalls, attempts, recorded >>
    /\ everPending' = everPending \cup MapKeys(pendingUrls')
    /\ UNCHANGED << initialized, browserPages, closedPages, saveVars, callVars,
                    serverVars >>

\* main: await taskManager.processUrlQueue()
main ==
    /\ qpc = "main"
    /\ todo = <<>>
    /\ qpc' = "queue"
    /\ UNCHANGED << todo, maxConcurrency, tasks, pages, pendingUrls,
                    processingUrls, activePages, batch, saveWaiters,
                    savePageCalls, attempts, recorded >>
    /\ everPending' = everPending \cup MapKeys(pendingUrls')
    /\ UNCHANGED << initialized, browserPages, closedPages, saveVars, callVars,
                    serverVars >>

\* The loop of processUrlQueue takes no step while the batch is in flight
\* without the await.
batchSettledUnawaited == TRUE

\* await Promise.allSettled(pendingUrls.map(...)): the loop of processUrlQueue
\* goes on when every callback of the batch has returned.
batchSettled == \A i \in DOMAIN batch : batch[i].pc = "done"

\* One pass of the outer loop of processUrlQueue, taken when the previous
\* Promise.allSettled has resolved: the loop ends, or waits a second, or
\* dispatches the next batch.
processUrlQueue ==
    /\ qpc = "queue"
    /\ batchSettled
    /\ IF ~ (Len(pendingUrls) > 0 \/ processingUrls # {})
       THEN /\ qpc' = "returned"
            /\ batch' = <<>>
            /\ UNCHANGED << pendingUrls, processingUrls, activePages, pages,
                            attempts, recorded >>
       ELSE IF activePages >= maxConcurrency
       THEN UNCHANGED << qpc, batch, pendingUrls, processingUrls, activePages,
                         pages, attempts, recorded >>
       ELSE LET availableSlots == maxConcurrency - activePages
                selected == selectPending(pendingUrls, availableSlots)
                d == dispatch(Manager, selected, <<>>)
            IN  IF Len(selected) > 0
                THEN /\ Store(d.M)
                     /\ batch' = d.batch
                     /\ qpc' = qpc
                ELSE IF processingUrls = {}
                THEN /\ qpc' = "returned"
                     /\ batch' = <<>>
                     /\ UNCHANGED << pendingUrls, processingUrls, activePages,
                                     pages, attempts, recorded >>
                ELSE UNCHANGED << qpc, batch, pendingUrls, processingUrls,
                                  activePages, pages, attempts, recorded >>
    /\ UNCHANGED << todo, maxConcurrency, tasks, saveWaiters, savePageCalls >>
    /\ everPending' = everPending \cup MapKeys(pendingUrls')
    /\ UNCHANGED << initialized, browserPages, closedPages, saveVars, callVars,
                    serverVars >>

\* The rest of processUrl after the finally block of task i: the retry loop
\* goes round (the URL is put back at once), or processUrl returns and the
\* callback goes on to the next task group.
afterFinally(M, t, retry) ==
    LET n == getNormalizedUrl(t.url)
        M1 == endAttempt(M, n)
    IN  IF retry
        THEN [M |-> beginAttempt(M1, n),
              task |-> [t EXCEPT !.pc = "fetch", !.page = FALSE]]
        ELSE runGroups(M1, t.url, t.gi + 1)

\* browserManager.getPage(url) returns: the page that browserManager.pages
\* has for the URL, or else a new page, which is set in browserManager.pages.
getPage(cache, url) ==
    IF url \in cache THEN [page |-> url, pages |-> cache]
    ELSE [page |-> url, pages |-> cache \cup {url}]

\* The renderer returns the page: the page is set in taskGroup.pages and
\* passed to savePage, whose promise the task awaits.
fetchSucceeds(i, links) ==
    /\ i \in DOMAIN batch
    /\ batch[i].pc = "fetch"
    /\ LET t == batch[i]
           g == tasks[t.gi]
           n == getNormalizedUrl(t.url)
       IN  /\ pages' = [pages EXCEPT ![g.name] = (n :> "ok") @@ @]
           /\ recorded' = Bump(recorded, n)
           /\ savePageCalls' = savePageCalls \cup {<<g.name, n, "ok">>}
           /\ saveWaiters' = [saveWaiters EXCEPT ![g.name] = Append(@, i)]
           /\ batch' = [batch EXCEPT ![i] =
                    [t EXCEPT !.pc = "saving", !.page = TRUE, !.kind = "ok",
                              !.links = sameDomainLinks(links, g)]]
    /\ UNCHANGED << todo, maxConcurrency, tasks, pendingUrls, processingUrls,
                    activePages, qpc, attempts >>
    /\ everPending' = everPending \cup MapKeys(pendingUrls')
    /\ browserPages' = getPage(browserPages, batch[i].url).pages
    /\ UNCHANGED << initialized, closedPages, saveVars, callVars, serverVars >>

\* pendingUrls.get(normalizedUrl): urlState.status = 'failed'
markFailed(pending, n) ==
    IF MapHas(pending, n) THEN MapSet(pending, n, [status |-> "failed"]) ELSE pending

\* setErrorPage that sets no page: the last failure leaves no record.
setErrorPageNever(pgs, name, n) == pgs

\* taskGroup.pages.set(normalizedUrl, errorPageData)
setErrorPage(pgs, name, n) == [pgs EXCEPT ![name] = (n :> "error") @@ @]

\* An attempt throws, with the page opened or not: the catch block counts the
\* retry and either waits for the backoff delay or, after the last attempt,
\* sets an error page and passes it to savePage.
fetchFails(i, opened) ==
    /\ i \in DOMAIN batch
    /\ batch[i].pc = "fetch"
    /\ LET t == batch[i]
           g == tasks[t.gi]
           n == getNormalizedUrl(t.url)
           retryCount == t.retryCount + 1
       IN  /\ pendingUrls' = markFailed(pendingUrls, n)
           /\ IF retryCount < maxRetries
              THEN /\ batch' = [batch EXCEPT ![i] =
                           [t EXCEPT !.pc = "backoff", !.page = opened,
                                     !.retryCount = retryCount]]
                   /\ UNCHANGED << pages, recorded, savePageCalls, saveWaiters >>
              ELSE /\ pages' = setErrorPage(pages, g.name, n)
                   /\ recorded' = Bump(recorded, n)
                   /\ savePageCalls' = savePageCalls \cup {<<g.name, n, "error">>}
                   /\ saveWaiters' = [saveWaiters EXCEPT ![g.name] = Append(@, i)]
                   /\ batch' = [batch EXCEPT ![i] =
                           [t EXCEPT !.pc = "saving", !.page = opened,
                                     !.kind = "error", !.retryCount = retryCount]]
    /\ UNCHANGED << todo, maxConcurrency, tasks, processingUrls, activePages,
                    qpc, attempts >>
    /\ everPending' = everPending \cup MapKeys(pendingUrls')
    /\ browserPages' = IF opened THEN getPage(browserPages, batch[i].url).pages
                       ELSE browserPages
    /\ UNCHANGED << initialized, closedPages, saveVars, callVars, serverVars >>

\* The backoff delay of task i ends: the finally block closes the page, if
\* one was opened, and the loop goes round.
backoffDone(i) ==
    /\ i \in DOMAIN batch
    /\ batch[i].pc = "backoff"
    /\ IF batch[i].page
       THEN /\ batch' = [batch EXCEPT ![i].pc = "closeRetry"]
            /\ UNCHANGED << pendingUrls, processingUrls, activePages, pages,
                            attempts, recorded >>
       ELSE LET r == afterFinally(Manager, batch[i], TRUE)
            IN  /\ Store(r.M)
                /\ batch' = [batch EXCEPT ![i] = r.task]
    /\ UNCHANGED << todo, maxConcurrency, tasks, qpc, saveWaiters, savePageCalls >>
    /\ everPending' = everPending \cup MapKeys(pendingUrls')
    /\ closedPages' = IF batch[i].page
                      THEN closedPages \cup {getPage(browserPages, batch[i].url).page}
                      ELSE closedPages
    /\ UNCHANGED << initialized, browserPages, saveVars, callVars, serverVars >>

\* await page.close() in the finally block of task i returns.
closeDone(i) ==
    /\ i \in DOMAIN batch
    /\ batch[i].pc \in {"closeRetry", "closeReturn"}
    /\ LET r == afterFinally(Manager, batch[i], batch[i].pc = "closeRetry")
       IN  /\ Store(r.M)
           /\ batch' = [batch EXCEPT ![i] = r.task]
    /\ UNCHANGED << todo, maxConcurrency, tasks, qpc, saveWaiters, savePageCalls >>
    /\ everPending' = everPending \cup MapKeys(pendingUrls')
    /\ UNCHANGED << initialized, browserPages, closedPages, saveVars, callVars,
                    serverVars >>

\* The continuations of the tasks that await one save promise, run in the
\* order they began to wait, each up to its next await: the link loop of a
\* saved page, then the finally block, which awaits page.close() when a page
\* was opened and otherwise ends the call at once.
RECURSIVE resumeSaved(_, _, _, _)
resumeSaved(M, b, waiters, returned) ==
    IF waiters = <<>> THEN [M |-> M, batch |-> b, returned |-> returned]
    ELSE LET i == Head(waiters)
             t == b[i]
             M1 == IF t.kind = "ok" THEN addLinks(M, t.links) ELSE M
         IN  IF t.page
             THEN resumeSaved(M1, [b EXCEPT ![i].pc = "closeReturn"],
                              Tail(waiters), returned)
             ELSE resumeSaved(endAttempt(M1, getNormalizedUrl(t.url)), b,
                              Tail(waiters), Append(returned, i))

\* The callbacks whose processUrl call returned go on to the next task group,
\* after every continuation above has run.
RECURSIVE resumeCallbacks(_, _, _)
resumeCallbacks(M, b, returned) ==
    IF returned = <<>> THEN [M |-> M, batch |-> b]
    ELSE LET i == Head(returned)
             r == runGroups(M, b[i].url, b[i].gi + 1)
         IN  resumeCallbacks(r.M, [b EXCEPT ![i] = r.task], Tail(returned))

\* The save promise of a source resolves (its debounced flush is over): every
\* task that awaits it goes on.
saveResolved(name) ==
    /\ saveWaiters[name] # <<>>
    /\ LET r1 == resumeSaved(Manager, batch, saveWaiters[name], <<>>)
           r2 == resumeCallbacks(r1.M, r1.batch, r1.returned)
       IN  /\ Store(r2.M)
           /\ batch' = r2.batch
    /\ saveWaiters' = [saveWaiters EXCEPT ![name] = <<>>]
    /\ UNCHANGED << todo, maxConcurrency, tasks, qpc, savePageCalls >>
    /\ everPending' = everPending \cup MapKeys(pendingUrls')
    /\ closedPages' = closedPages \cup
            { getPage(browserPages, batch[i].url).page :
                i \in { j \in DOMAIN batch :
                            /\ \E k \in DOMAIN saveWaiters[name] :
                                    saveWaiters[name][k] = j
                            /\ batch[j].page } }
    /\ UNCHANGED << initialized, browserPages, saveVars, callVars, serverVars >>

\* ---------------------------------------------------------- page contents

\* A title or a content is a string, modelled as the sequence of its
\* characters; Whitespace are the characters /\s/ matches.
Whitespace == {" ", "\n", "\t", "\r", "\f"}

\* content.split(/\s+/): the runs of characters between whitespace (an empty
\* first or last piece has no length and the filter below drops it).
RECURSIVE splitWords(_, _, _)
splitWords(c, cur, acc) ==
    IF c = <<>> THEN (IF cur = <<>> THEN acc ELSE Append(acc, cur))
    ELSE IF Head(c) \in Whitespace
         THEN splitWords(Tail(c), <<>>, IF cur = <<>> THEN acc ELSE Append(acc, cur))
         ELSE splitWords(Tail(c), Append(cur, Head(c)), acc)

\* .filter(w => w.length > 3)
significantWords(c) == SelectSeq(splitWords(c, <<>>, <<>>), LAMBDA w : Len(w) > 3)

Abs(x) == IF x < 0 THEN 0 - x ELSE x

\* isSimilarContent of _performActualSave. The comparisons with
\* words1.length * 0.3 and words2.length * 0.7 are made on integers, which
\* agrees with the floating-point products for the lengths met here.
isSimilarContent(content1, content2) ==
    IF content1 = <<>> \/ content2 = <<>> THEN FALSE
    ELSE IF content1 = content2 THEN TRUE
    ELSE LET words1 == significantWords(content1)
             words2 == significantWords(content2)
             set1 == {words1[i] : i \in DOMAIN words1}
             commonWords == Cardinality({i \in DOMAIN words2 : words2[i] \in set1})
         IN  IF 10 * Abs(Len(words1) - Len(words2)) > 3 * Len(words1) THEN FALSE
             ELSE 10 * commonWords > 7 * Len(words2)

\* findSimilarPage: some page under another URL of existingData.pages has
\* the same title and a similar content.
findSimilarPage(url, pageData, existingPages) ==
    \E existingUrl \in DOMAIN existingPages :
        /\ existingUrl # url
        /\ pageData.title = existingPages[existingUrl].title
        /\ isSimilarContent(pageData.content, existingPages[existingUrl].content)

\* ensureSafeJsonData on a string: a backslash is put before every backslash
\* and double quote, and a newline, carriage return, tab or form feed becomes
\* a backslash and a letter.
RECURSIVE escapeString(_)
escapeString(str) ==
    IF str = <<>> THEN <<>>
    ELSE LET ch == Head(str)
             out == CASE ch = "\\" -> <<"\\", "\\">>
                      [] ch = "\"" -> <<"\\", "\"">>
                      [] ch = "\n" -> <<"\\", "n">>
                      [] ch = "\r" -> <<"\\", "r">>
                      [] ch = "\t" -> <<"\\", "t">>
                      [] ch = "\f" -> <<"\\", "f">>
                      [] OTHER -> <<ch>>
         IN  out \o escapeString(Tail(str))

\* ensureSafeJsonData on a pageData object: every string property is escaped.
ensureSafeJsonData(pageData) ==
    [title |-> escapeString(pageData.title),
     content |-> escapeString(pageData.content)]

\* The title that stands in for an empty one ('无标题').
NoTitle == <<"?">>

\* finalPageData: { title: safe.title || '无标题', content: safe.content || '' }
finalPageData(safePageData) ==
    [title |-> IF safePageData.title = <<>> THEN NoTitle ELSE safePageData.title,
     content |-> safePageData.content]

\* The merge loop of _performActualSave over the snapshot of pending URLs:
\* a page that findSimilarPage matches is skipped, any other is set in
\* existingData.pages and counted.
RECURSIVE mergePending(_, _, _)
mergePending(acc, urls, saved) ==
    IF urls = <<>> THEN acc
    ELSE LET url == Head(urls)
             safePageData == ensureSafeJsonData(saved[url])
         IN  IF url \notin DOMAIN saved THEN mergePending(acc, Tail(urls), saved)
             ELSE IF findSimilarPage(url, safePageData, acc.pages)
             THEN mergePending([acc EXCEPT !.skipped = @ \cup {url}], Tail(urls), saved)
             ELSE mergePending(
                    [acc EXCEPT !.pages = (url :> finalPageData(safePageData)) @@ @,
                                !.updateCount = @ + 1],
                    Tail(urls), saved)

\* ------------------------------------------------------------------- files

\* A file of the docs directory: whether it exists, the pages its JSON text
\* holds, whether the text is whole (every byte of one writeFile call),
\* whether the text holds an 'export default {...};' statement, and the
\* processes that have it open for writing.
NoFile == [exists |-> FALSE, pages |-> <<>>, whole |-> FALSE, module |-> FALSE,
           writers |-> {}]

File(pagesMap) ==
    [exists |-> TRUE, pages |-> pagesMap, whole |-> TRUE, module |-> FALSE,
     writers |-> {}]

\* The lock file: whether it exists, whether it is older than the staleness
\* threshold, and the process that created it.
NoLock == [exists |-> FALSE, stale |-> FALSE, owner |-> "none"]

\* JSON.parse(content) and pages: parsed.pages || {}. A text that is not
\* whole is no JSON and holds no 'export default', so existingData keeps its
\* empty pages.
parseStore(file) == IF file.exists /\ file.whole THEN file.pages ELSE <<>>

\* Set.add, in insertion order.
SetAdd(seq, x) == IF \E i \in DOMAIN seq : seq[i] = x THEN seq ELSE Append(seq, x)

Range(seq) == {seq[i] : i \in DOMAIN seq}

\* -------------------------------------------------- the save pipeline

\* Two crawler processes that save pages of one source into one store file.
Procs == {"p1", "p2"}

\* The calls of savePage: a page for u1; for u2 a page with the same content
\* (a near-duplicate of u1's) and a page with a backslash in its content.
SaveUrls == {"u1", "u2"}

PageUniverse ==
    { [title |-> <<"T">>, content |-> <<"d", "o", "c", "s">>],
      [title |-> <<"T">>, content |-> <<"a", "\\", "b">>] }

SaveInputs ==
    { in \in [url : SaveUrls, pageData : PageUniverse] :
        in.url = "u1" => in.pageData.content = <<"d", "o", "c", "s">> }

\* The store file a run may find: none, or the file of an earlier run.
InitialStores ==
    { NoFile,
      File(("u0" :> [title |-> <<"O">>, content |-> <<"o", "l", "d">>])) }

\* The save pipeline before the first savePage call, whatever the store file.
SaveIdle ==
    /\ savedPages = [p \in Procs |-> <<>>]
    /\ pendingSaves = [p \in Procs |-> <<>>]
    /\ savePromises = [p \in Procs |-> FALSE]
    /\ fpc = [p \in Procs |-> "idle"]
    /\ flushUrls = [p \in Procs |-> <<>>]
    /\ existingFile = [p \in Procs |-> FALSE]
    /\ existingData = [p \in Procs |-> <<>>]
    /\ holdsLock = [p \in Procs |-> FALSE]
    /\ lockFile = NoLock
    /\ tempFile = NoFile
    /\ bakFile = NoFile
    /\ timers = [p \in Procs |-> 0]
    /\ flushRuns = [p \in Procs |-> 0]
    /\ window = [p \in Procs |-> {}]
    /\ unhandled = [p \in Procs |-> {}]
    /\ staleSeen = FALSE
    /\ nSaves = 0
    /\ nCrashes = 0
    /\ errorBakFiles = {}

SaveInit ==
    /\ SaveIdle
    /\ storeFile \in InitialStores

\* schedulesTimer without the look at _savePromises: every call sets a timer.
schedulesTimerAlways(hasPromise) == TRUE

\* savePage: if (this._savePromises.has(sourceName)) return the promise
\* already scheduled; a timer is set only when there is none.
schedulesTimer(hasPromise) == ~ hasPromise

\* addPending with a pending set made anew by every call (the guard
\* !this.pendingSaves.has(sourceName) left out).
addPendingAnew(pending, url) == <<url>>

\* if (!this.pendingSaves.has(sourceName)) this.pendingSaves.set(sourceName,
\* new Set()); this.pendingSaves.get(sourceName).add(url)
addPending(pending, url) == SetAdd(pending, url)

\* savePage(sourceName, url, pageData) after its await of fs.mkdir: the page
\* is put in the memory cache and the URL in the pending set, and a save is
\* scheduled in 1000 ms unless the source has a save promise.
savePage(p, url, pageData) ==
    /\ nSaves < MaxSaves
    /\ nSaves' = nSaves + 1
    /\ savedPages' = [savedPages EXCEPT ![p] = (url :> pageData) @@ @]
    /\ pendingSaves' = [pendingSaves EXCEPT ![p] = addPending(@, url)]
    /\ unhandled' = [unhandled EXCEPT ![p] = @ \cup {url}]
    /\ IF schedulesTimer(savePromises[p])
       THEN /\ savePromises' = [savePromises EXCEPT ![p] = TRUE]
            /\ fpc' = [fpc EXCEPT ![p] = "timer"]
            /\ timers' = [timers EXCEPT ![p] = @ + 1]
            /\ flushRuns' = [flushRuns EXCEPT ![p] = 0]
            /\ window' = [window EXCEPT ![p] = {url}]
       ELSE /\ window' = [window EXCEPT ![p] =
                    IF fpc[p] = "timer" THEN @ \cup {url} ELSE @]
            /\ UNCHANGED << savePromises, fpc, timers, flushRuns >>
    /\ UNCHANGED << flushUrls, existingFile, existingData, holdsLock, lockFile,
                    storeFile, tempFile, bakFile, staleSeen, nCrashes >>
    /\ UNCHANGED << errorBakFiles, crawlVars, callVars, serverVars >>

\* The timer of savePage fires: its callback calls _performActualSave, which
\* runs up to its await of fs.writeFile(lockFile, ..., {flag: 'wx'}).
timerFires(p) ==
    /\ fpc[p] = "timer"
    /\ fpc' = [fpc EXCEPT ![p] = "lock"]
    /\ flushRuns' = [flushRuns EXCEPT ![p] = @ + 1]
    /\ UNCHANGED << savedPages, pendingSaves, savePromises, flushUrls,
                    existingFile, existingData, holdsLock, lockFile, storeFile,
                    tempFile, bakFile, timers, window, unhandled, staleSeen,
                    nSaves, nCrashes >>
    /\ UNCHANGED << errorBakFiles, crawlVars, callVars, serverVars >>

\* With the lock file written: const pendingUrls = Array.from(pendingSaves);
\* an empty snapshot ends the flush.
afterLock(p) ==
    /\ holdsLock' = [holdsLock EXCEPT ![p] = TRUE]
    /\ flushUrls' = [flushUrls EXCEPT ![p] = pendingSaves[p]]
    /\ fpc' = [fpc EXCEPT ![p] = IF pendingSaves[p] = <<>> THEN "release" ELSE "access"]

\* fs.writeFile(lockFile, ..., {flag: 'wx'}) creates the lock file, or fails
\* with EEXIST and the flush goes on to fs.stat(lockFile).
lockCreate(p) ==
    /\ fpc[p] = "lock"
    /\ IF ~ lockFile.exists
       THEN /\ lockFile' = [exists |-> TRUE, stale |-> FALSE, owner |-> p]
            /\ afterLock(p)
       ELSE /\ fpc' = [fpc EXCEPT ![p] = "lockStat"]
            /\ UNCHANGED << lockFile, holdsLock, flushUrls >>
    /\ UNCHANGED << savedPages, pendingSaves, savePromises, existingFile,
                    existingData, storeFile, tempFile, bakFile, timers,
                    flushRuns, window, unhandled, staleSeen, nSaves, nCrashes >>
    /\ UNCHANGED << errorBakFiles, crawlVars, callVars, serverVars >>

\* fs.stat(lockFile): a lock older than 30000 ms is to be replaced; for a
\* younger one, or when stat fails, the flush waits and throws, which its
\* catch block logs and its finally block follows.
lockStat(p) ==
    /\ fpc[p] = "lockStat"
    /\ fpc' = [fpc EXCEPT ![p] =
            IF lockFile.exists /\ lockFile.stale THEN "lockUnlink" ELSE "release"]
    /\ UNCHANGED << savedPages, pendingSaves, savePromises, flushUrls,
                    existingFile, existingData, holdsLock, lockFile, storeFile,
                    tempFile, bakFile, timers, flushRuns, window, unhandled,
                    staleSeen, nSaves, nCrashes >>
    /\ UNCHANGED << errorBakFiles, crawlVars, callVars, serverVars >>

\* await fs.unlink(lockFile).catch(() => {}) of the stale lock.
lockUnlink(p) ==
    /\ fpc[p] = "lockUnlink"
    /\ lockFile' = NoLock
    /\ fpc' = [fpc EXCEPT ![p] = "lockWrite"]
    /\ UNCHANGED << savedPages, pendingSaves, savePromises, flushUrls,
                    existingFile, existingData, holdsLock, storeFile, tempFile,
                    bakFile, timers, flushRuns, window, unhandled, staleSeen,
                    nSaves, nCrashes >>
    /\ UNCHANGED << errorBakFiles, crawlVars, callVars, serverVars >>

\* await fs.writeFile(lockFile, Date.now().toString()), without the wx flag.
lockWrite(p) ==
    /\ fpc[p] = "lockWrite"
    /\ lockFile' = [exists |-> TRUE, stale |-> FALSE, owner |-> p]
    /\ afterLock(p)
    /\ UNCHANGED << savedPages, pendingSaves, savePromises, existingFile,
                    existingData, storeFile, tempFile, bakFile, timers,
                    flushRuns, window, unhandled, staleSeen, nSaves, nCrashes >>
    /\ UNCHANGED << errorBakFiles, crawlVars, callVars, serverVars >>

\* With existingData loaded: the merge loop; no update ends the flush, and
\* otherwise the data is serialized and the flush goes on to fs.access.
afterLoad(p, loadedPages) ==
    LET merged == mergePending([pages |-> loadedPages, updateCount |-> 0, skipped |-> {}],
                               flushUrls[p], savedPages[p])
    IN  /\ existingData' = [existingData EXCEPT ![p] = merged.pages]
        /\ unhandled' = [unhandled EXCEPT ![p] = @ \ merged.skipped]
        /\ fpc' = [fpc EXCEPT ![p] = IF merged.updateCount = 0 THEN "release" ELSE "access2"]

\* await fs.access(outputPath): without a store file existingData stays empty.
flushAccess(p) ==
    /\ fpc[p] = "access"
    /\ existingFile' = [existingFile EXCEPT ![p] = storeFile.exists]
    /\ IF storeFile.exists
       THEN /\ fpc' = [fpc EXCEPT ![p] = "read"]
            /\ UNCHANGED << existingData, unhandled >>
       ELSE afterLoad(p, <<>>)
    /\ UNCHANGED << savedPages, pendingSaves, savePromises, flushUrls,
                    holdsLock, lockFile, storeFile, tempFile, bakFile, timers,
                    flushRuns, window, staleSeen, nSaves, nCrashes >>
    /\ UNCHANGED << errorBakFiles, crawlVars, callVars, serverVars >>

\* await fs.readFile(outputPath, 'utf-8') and the parse of its text. A text
\* that is no JSON is searched for 'export default {...};': without one the
\* flush goes on with empty pages, and with one whose object neither
\* new Function nor the repaired JSON.parse can read it goes on to copy the
\* store to an error backup.
flushRead(p) ==
    /\ fpc[p] = "read"
    /\ IF storeFile.exists /\ ~ storeFile.whole /\ storeFile.module
       THEN /\ fpc' = [fpc EXCEPT ![p] = "errorBak"]
            /\ UNCHANGED << existingData, unhandled >>
       ELSE afterLoad(p, parseStore(storeFile))
    /\ UNCHANGED << savedPages, pendingSaves, savePromises, flushUrls,
                    existingFile, holdsLock, lockFile, storeFile, tempFile,
                    bakFile, timers, flushRuns, window, staleSeen, nSaves,
                    nCrashes >>
    /\ UNCHANGED << errorBakFiles, crawlVars, callVars, serverVars >>

\* await fs.copyFile(outputPath, errorBackupPath).catch(() => {}): the store
\* as it is by now is copied to a file named after the time, and the flush
\* goes on with empty pages.
flushErrorBackup(p) ==
    /\ fpc[p] = "errorBak"
    /\ errorBakFiles' =
         IF storeFile.exists
         THEN errorBakFiles \cup {[pages |-> storeFile.pages, whole |-> storeFile.whole,
                                   module |-> storeFile.module]}
         ELSE errorBakFiles
    /\ afterLoad(p, <<>>)
    /\ UNCHANGED << savedPages, pendingSaves, savePromises, flushUrls,
                    existingFile, holdsLock, lockFile, storeFile, tempFile,
                    bakFile, timers, flushRuns, window, staleSeen, nSaves,
                    nCrashes >>
    /\ UNCHANGED << crawlVars, callVars, serverVars >>

\* const jsonExists = await fs.access(jsonOutputPath)
flushAccess2(p) ==
    /\ fpc[p] = "access2"
    /\ fpc' = [fpc EXCEPT ![p] = IF storeFile.exists THEN "copyBak" ELSE "write"]
    /\ UNCHANGED << savedPages, pendingSaves, savePromises, flushUrls,
                    existingFile, existingData, holdsLock, lockFile, storeFile,
                    tempFile, bakFile, timers, flushRuns, window, unhandled,
                    staleSeen, nSaves, nCrashes >>
    /\ UNCHANGED << errorBakFiles, crawlVars, callVars, serverVars >>

\* await fs.copyFile(jsonOutputPath, backupPath).catch(() => {})
flushCopyBak(p) ==
    /\ fpc[p] = "copyBak"
    /\ bakFile' = IF storeFile.exists THEN [storeFile EXCEPT !.writers = {}] ELSE bakFile
    /\ fpc' = [fpc EXCEPT ![p] = "write"]
    /\ UNCHANGED << savedPages, pendingSaves, savePromises, flushUrls,
                    existingFile, existingData, holdsLock, lockFile, storeFile,
                    tempFile, timers, flushRuns, window, unhandled, staleSeen,
                    nSaves, nCrashes >>
    /\ UNCHANGED << errorBakFiles, crawlVars, callVars, serverVars >>

\* fs.writeFile(jsonTempPath, formattedJson) opens the temporary file, which
\* empties it when it exists.
flushWriteOpen(p) ==
    /\ fpc[p] = "write"
    /\ tempFile' = [exists |-> TRUE, pages |-> <<>>, whole |-> FALSE,
                    module |-> FALSE, writers |-> tempFile.writers \cup {p}]
    /\ fpc' = [fpc EXCEPT ![p] = "writing"]
    /\ UNCHANGED << savedPages, pendingSaves, savePromises, flushUrls,
                    existingFile, existingData, holdsLock, lockFile, storeFile,
                    bakFile, timers, flushRuns, window, unhandled, staleSeen,
                    nSaves, nCrashes >>
    /\ UNCHANGED << errorBakFiles, crawlVars, callVars, serverVars >>

\* The file p has open, after p's last byte is written: the text is whole
\* when no other process has the same file open.
written(file, p, pagesMap) ==
    IF p \in file.writers
    THEN [file EXCEPT !.pages = pagesMap, !.writers = @ \ {p},
                      !.whole = (file.writers = {p})]
    ELSE file

\* fs.writeFile(jsonTempPath, formattedJson) has written its last byte, into
\* the file it opened, whatever name that file has by now.
flushWriteDone(p) ==
    /\ fpc[p] = "writing"
    /\ tempFile' = written(tempFile, p, existingData[p])
    /\ storeFile' = written(storeFile, p, existingData[p])
    /\ fpc' = [fpc EXCEPT ![p] = "rename"]
    /\ UNCHANGED << savedPages, pendingSaves, savePromises, flushUrls,
                    existingFile, existingData, holdsLock, lockFile, bakFile,
                    timers, flushRuns, window, unhandled, staleSeen, nSaves,
                    nCrashes >>
    /\ UNCHANGED << errorBakFiles, crawlVars, callVars, serverVars >>

\* The pending set without the URLs of the snapshot.
clearPending(pending, urls) == SelectSeq(pending, LAMBDA u : u \notin Range(urls))

\* await fs.rename(jsonTempPath, jsonOutputPath): the temporary file takes
\* the store's name. Then, with a .bak file, the flush goes on to unlink it,
\* and without one it clears the pending URLs of its snapshot. When there is
\* no temporary file the rename throws and the pending URLs stay.
flushRename(p) ==
    /\ fpc[p] = "rename"
    /\ IF tempFile.exists
       THEN /\ storeFile' = tempFile
            /\ tempFile' = NoFile
            /\ unhandled' = [unhandled EXCEPT ![p] = @ \ Range(flushUrls[p])]
            /\ IF bakFile.exists
               THEN /\ fpc' = [fpc EXCEPT ![p] = "unlinkBak"]
                    /\ UNCHANGED pendingSaves
               ELSE /\ fpc' = [fpc EXCEPT ![p] = "release"]
                    /\ pendingSaves' = [pendingSaves EXCEPT ![p] =
                            clearPending(@, flushUrls[p])]
       ELSE /\ fpc' = [fpc EXCEPT ![p] = "release"]
            /\ UNCHANGED << storeFile, tempFile, unhandled, pendingSaves >>
    /\ UNCHANGED << savedPages, savePromises, flushUrls, existingFile,
                    existingData, holdsLock, lockFile, bakFile, timers,
                    flushRuns, window, staleSeen, nSaves, nCrashes >>
    /\ UNCHANGED << errorBakFiles, crawlVars, callVars, serverVars >>

\* await fs.unlink(backupPath), then the pending URLs of the snapshot are
\* cleared.
flushUnlinkBak(p) ==
    /\ fpc[p] = "unlinkBak"
    /\ bakFile' = NoFile
    /\ pendingSaves' = [pendingSaves EXCEPT ![p] = clearPending(@, flushUrls[p])]
    /\ fpc' = [fpc EXCEPT ![p] = "release"]
    /\ UNCHANGED << savedPages, savePromises, flushUrls, existingFile,
                    existingData, holdsLock, lockFile, storeFile, tempFile,
                    timers, flushRuns, window, unhandled, staleSeen, nSaves,
                    nCrashes >>
    /\ UNCHANGED << errorBakFiles, crawlVars, callVars, serverVars >>

\* The lock file after an unlink that is the last statement of the try block
\* and not a finally block: the lock file stays when the flush returned early
\* or threw.
unlinkLockFileOnSuccess(p) ==
    IF flushUrls[p] # <<>> /\ Range(flushUrls[p]) \cap Range(pendingSaves[p]) = {}
    THEN NoLock ELSE lockFile

\* The lock file after await fs.unlink(lockFile).catch(() => {}) of the
\* finally block.
unlinkLockFile(p) == NoLock

\* finally { await fs.unlink(lockFile).catch(() => {}) } of every flush,
\* whether it created the lock file or not; _performActualSave returns, and
\* the timer callback resolves the promise and deletes it from _savePromises.
flushRelease(p) ==
    /\ fpc[p] = "release"
    /\ lockFile' = unlinkLockFile(p)
    /\ holdsLock' = [holdsLock EXCEPT ![p] = FALSE]
    /\ savePromises' = [savePromises EXCEPT ![p] = FALSE]
    /\ timers' = [timers EXCEPT ![p] = @ - 1]
    /\ fpc' = [fpc EXCEPT ![p] = "idle"]
    /\ UNCHANGED << savedPages, pendingSaves, flushUrls, existingFile,
                    existingData, storeFile, tempFile, bakFile, flushRuns,
                    window, unhandled, staleSeen, nSaves, nCrashes >>
    /\ UNCHANGED << errorBakFiles, crawlVars, callVars, serverVars >>

\* The process is killed while a save is scheduled or running and started
\* again: its memory is gone, the files stay as they are, and a file it was
\* writing keeps the bytes written so far.
crash(p) ==
    /\ nCrashes < MaxCrashes
    /\ fpc[p] # "idle"
    /\ nCrashes' = nCrashes + 1
    /\ savedPages' = [savedPages EXCEPT ![p] = <<>>]
    /\ pendingSaves' = [pendingSaves EXCEPT ![p] = <<>>]
    /\ savePromises' = [savePromises EXCEPT ![p] = FALSE]
    /\ fpc' = [fpc EXCEPT ![p] = "idle"]
    /\ flushUrls' = [flushUrls EXCEPT ![p] = <<>>]
    /\ existingFile' = [existingFile EXCEPT ![p] = FALSE]
    /\ existingData' = [existingData EXCEPT ![p] = <<>>]
    /\ holdsLock' = [holdsLock EXCEPT ![p] = FALSE]
    /\ timers' = [timers EXCEPT ![p] = 0]
    /\ flushRuns' = [flushRuns EXCEPT ![p] = 0]
    /\ window' = [window EXCEPT ![p] = {}]
    /\ unhandled' = [unhandled EXCEPT ![p] = {}]
    /\ tempFile' = [tempFile EXCEPT !.writers = @ \ {p}]
    /\ storeFile' = [storeFile EXCEPT !.writers = @ \ {p}]
    /\ UNCHANGED << lockFile, bakFile, staleSeen, nSaves >>
    /\ UNCHANGED << errorBakFiles, crawlVars, callVars, serverVars >>

\* 30 s pass since a lock file was written whose flush is no longer running
\* (its process was killed).
lockExpires ==
    /\ lockFile.exists
    /\ ~ lockFile.stale
    /\ ~ holdsLock[lockFile.owner]
    /\ lockFile' = [lockFile EXCEPT !.stale = TRUE]
    /\ staleSeen' = TRUE
    /\ UNCHANGED << savedPages, pendingSaves, savePromises, fpc, flushUrls,
                    existingFile, existingData, holdsLock, storeFile, tempFile,
                    bakFile, timers, flushRuns, window, unhandled, nSaves,
                    nCrashes >>
    /\ UNCHANGED << errorBakFiles, crawlVars, callVars, serverVars >>

\* ---------------------------------------------------------- specifications

\* The MCP server is not running and the docs directory holds no file.
ServerIdle ==
    /\ docData = <<>>
    /\ docsLoaded = FALSE
    /\ docsDir = <<>>
    /\ nDirChanges = 0
    /\ isLoadingDocs = FALSE
    /\ loadCalls = <<>>

\* The crawl, with the save pipeline reduced to the promise savePage returns.
\* No function is called on its own.
NoCall ==
    /\ callArgs = [fn |-> "none"]
    /\ callResult = <<>>
    /\ ServerIdle

Init ==
    /\ CrawlInit
    /\ SaveInit
    /\ storeFile = NoFile
    /\ NoCall

Next ==
    \/ \E ok \in BOOLEAN : init(ok)
    \/ addSource
    \/ main
    \/ processUrlQueue
    \/ \E i \in 1..MaxConcurrency, links \in LinkChoices : fetchSucceeds(i, links)
    \/ \E i \in 1..MaxConcurrency, opened \in BOOLEAN : fetchFails(i, opened)
    \/ \E i \in 1..MaxConcurrency : backoffDone(i)
    \/ \E i \in 1..MaxConcurrency : closeDone(i)
    \/ \E name \in SourceNames : saveResolved(name)

Spec == Init /\ [][Next]_vars

\* A TaskManager whose crawl has not begun or is over, whatever its sources.
CrawlIdle ==
    /\ todo = <<>>
    /\ maxConcurrency = 1
    /\ pages = [s \in SourceNames |-> <<>>]
    /\ pendingUrls = <<>>
    /\ processingUrls = {}
    /\ activePages = 0
    /\ batch = <<>>
    /\ qpc = "returned"
    /\ initialized = FALSE
    /\ browserPages = {}
    /\ closedPages = {}
    /\ saveWaiters = [s \in SourceNames |-> <<>>]
    /\ savePageCalls = {}
    /\ attempts = <<>>
    /\ recorded = <<>>
    /\ everPending = {}

\* The save pipeline, with savePage called from outside.
InitSave ==
    /\ SaveInit
    /\ NoCall
    /\ CrawlIdle
    /\ tasks = <<>>

NextSave ==
    \/ \E p \in Procs, in \in SaveInputs : savePage(p, in.url, in.pageData)
    \/ \E p \in Procs : timerFires(p)
    \/ \E p \in Procs : lockCreate(p)
    \/ \E p \in Procs : lockStat(p)
    \/ \E p \in Procs : lockUnlink(p)
    \/ \E p \in Procs : lockWrite(p)
    \/ \E p \in Procs : flushAccess(p)
    \/ \E p \in Procs : flushRead(p)
    \/ \E p \in Procs : flushAccess2(p)
    \/ \E p \in Procs : flushCopyBak(p)
    \/ \E p \in Procs : flushWriteOpen(p)
    \/ \E p \in Procs : flushWriteDone(p)
    \/ \E p \in Procs : flushRename(p)
    \/ \E p \in Procs : flushUnlinkBak(p)
    \/ \E p \in Procs : flushRelease(p)
    \/ \E p \in Procs : crash(p)
    \/ lockExpires

SpecSave == InitSave /\ [][NextSave]_vars

\* The save pipeline started on a store file that no parse can read: a text
\* cut short (no JSON, no 'export default'), or a module text whose object
\* is broken.
UnreadableStores ==
    { [exists |-> TRUE, pages |-> <<>>, whole |-> FALSE, module |-> m, writers |-> {}] :
        m \in BOOLEAN }

InitLoad ==
    /\ SaveIdle
    /\ storeFile \in UnreadableStores
    /\ NoCall
    /\ CrawlIdle
    /\ tasks = <<>>

NextLoad ==
    \/ NextSave
    \/ \E p \in Procs : flushErrorBackup(p)

SpecLoad == InitLoad /\ [][NextLoad]_vars

\* ------------------------------------------------------- claims of the crawl

\* A task that holds a slot for its URL: between the first pass of the retry
\* loop and the last finally block of its processUrl call.
InFlight(t) == t.pc \in {"fetch", "backoff", "saving", "closeRetry", "closeReturn"}

\* C1: in every state of a run of processUrlQueue the number of URLs in
\* processingUrls and the activePages counter are both at most
\* config.maxConcurrency, also while URLs are retried.
C1_ConcurrencyCeiling ==
    /\ Cardinality(processingUrls) <= maxConcurrency
    /\ activePages <= maxConcurrency

\* Every slot is taken, one of them by a task that waits to retry, and more
\* URLs are pending.
C1_Witness ==
    /\ maxConcurrency >= 2
    /\ activePages = maxConcurrency
    /\ Cardinality(processingUrls) = maxConcurrency
    /\ \E i \in DOMAIN batch : batch[i].pc = "backoff" /\ batch[i].retryCount >= 1
    /\ Len(pendingUrls) > 0

\* C2: no normalized URL is in flight in more than one task at a time, also
\* when two pending entries have different raw URLs with one normalized form.
C2_AtMostOnceInFlight ==
    \A i, j \in DOMAIN batch :
        (i # j /\ InFlight(batch[i]) /\ InFlight(batch[j]))
            => getNormalizedUrl(batch[i].url) # getNormalizedUrl(batch[j].url)

\* Two entries of one batch with different raw URLs and the same normalized
\* form: one is in flight on a retry, the other was skipped.
C2_Witness ==
    \E i, j \in DOMAIN batch :
        /\ batch[i].url # batch[j].url
        /\ getNormalizedUrl(batch[i].url) = getNormalizedUrl(batch[j].url)
        /\ batch[i].pc = "fetch" /\ batch[i].retryCount >= 1
        /\ batch[j].pc = "done"

\* C3: each dispatched URL gets exactly one terminal outcome: its normalized
\* form is recorded once (a success page or an error page), it is not fetched
\* again once recorded, and at the end of the run every URL that was fetched
\* is recorded; for any number of registered sources.
C3_OneTerminalOutcome ==
    /\ \A n \in DOMAIN recorded : recorded[n] <= 1
    /\ \A i \in DOMAIN batch :
          batch[i].pc = "fetch" => Count(recorded, getNormalizedUrl(batch[i].url)) = 0
    /\ qpc = "returned" => \A n \in DOMAIN attempts : Count(recorded, n) = 1

\* C10: a URL whose every attempt failed has had exactly maxRetries attempts
\* in the run, its error page is in the task group's pages under the
\* normalized URL and was passed to savePage, and no further attempt on it is
\* made.
C10_ErrorPageAfterThreeAttempts ==
    \A name \in SourceNames :
        \A n \in DOMAIN pages[name] :
            pages[name][n] = "error"
                => /\ Count(attempts, n) = maxRetries
                   /\ <<name, n, "error">> \in savePageCalls

\* ----------------------------------------------- claims of the save pipeline

\* C4: a flush into a store file that parses as the canonical JSON leaves
\* every key the store's pages had in place with its title and content,
\* except the keys among the URLs it flushes; the key set never shrinks.
C4_MergeKeepsExistingKeys ==
    [][ (storeFile.exists /\ storeFile.whole)
            => /\ storeFile'.exists
               /\ \A k \in DOMAIN storeFile.pages :
                    /\ k \in DOMAIN storeFile'.pages
                    /\ \/ storeFile'.pages[k] = storeFile.pages[k]
                       \/ \E p \in Procs :
                            fpc[p] = "rename" /\ k \in Range(flushUrls[p]) ]_vars

\* C5: every page passed to savePage is merged into the store file, or
\* skipped as a near-duplicate, by a flush that needs no later savePage call:
\* when the source has no save scheduled or running, no page is left behind.
C5_NoPageLeftBehind ==
    \A p \in Procs : ~ savePromises[p] => unhandled[p] = {}

\* C6: as long as no lock file grows older than the staleness threshold, at
\* most one flush is between creating the lock file and removing it.
C6_OneFlushInTheLock ==
    ~ staleSeen => Cardinality({p \in Procs : holdsLock[p]}) <= 1

\* C7: whatever step of a flush a process is killed at, the store file is
\* absent or holds the whole text of one write, never a part of one.
C7_StoreNeverPartial ==
    storeFile.exists => storeFile.whole

C9_OneTimerPerSource ==
    \A p \in Procs :
        /\ timers[p] <= 1
        /\ (timers[p] = 1) = (fpc[p] # "idle")
        /\ (timers[p] = 1) = savePromises[p]

\* A page passed to savePage while the flush of its source holds the lock:
\* it is pending, not in the flush's snapshot, and there is still one timer.
C9_Witness ==
    \E p \in Procs :
        /\ holdsLock[p]
        /\ ~ (Range(pendingSaves[p]) \subseteq Range(flushUrls[p]))
        /\ timers[p] = 1

\* ------------------------------------------- claims of the end of the crawl

\* C11: processUrlQueue returns, and when it has returned both pendingUrls
\* and processingUrls are empty.
C11_ReturnsWithEmptyFrontier ==
    qpc = "returned" => (pendingUrls = <<>> /\ processingUrls = {})

Rejected(u) ==
    /\ \A i \in DOMAIN tasks : u # tasks[i].url /\ u # getNormalizedUrl(tasks[i].url)
    /\ ~ isComponentLink(u)

C13_RejectedLinkNeverPending ==
    qpc # "main" =>
        /\ \A u \in everPending : ~ Rejected(u)
        /\ \A name \in SourceNames : \A n \in DOMAIN pages[name] : ~ Rejected(n)
        /\ \A c \in savePageCalls : ~ Rejected(c[2])
        /\ \A u \in everPending : u.path # <<"v1", "c">>

\* A saved page of the first source whose links held the excluded page, a
\* page that is taken, and its link loop has run.
C13_Witness ==
    \E i \in DOMAIN batch :
        /\ batch[i].pc \in {"closeReturn", "done"}
        /\ batch[i].kind = "ok"
        /\ \E k \in DOMAIN batch[i].links : batch[i].links[k].path = <<"v1", "c">>
        /\ \E u \in everPending : u.path = <<"a", "b">>

\* ------------------------------------------------- calls of isComponentLink

\* The pattern lists of a source, and the sources registered: a source of
\* host x with any of these include and exclude patterns, alone or before a
\* source of host y.
MatchPatterns ==
    { <<>>, << <<"a">> >>, << <<"a", "b">> >>, << <<"c">>, <<"b">> >> }

MatchTasks ==
    { <<[name |-> "alpha", url |-> Url("x", <<"a">>, 0, FALSE, FALSE),
         includePatterns |-> inc, excludePatterns |-> exc]>> \o rest :
        inc \in MatchPatterns, exc \in MatchPatterns,
        rest \in {<<>>, <<docSources[2]>>} }

\* The URLs isComponentLink is called with: of a registered host or of
\* none, with and without a trailing slash.
MatchUrls ==
    { Url(h, p, sl, FALSE, FALSE) :
        h \in {"x", "y", "z"},
        p \in {<<"a">>, <<"a", "b">>, <<"c", "a">>, <<"d">>},
        sl \in {0, 1} }

InitMatch ==
    /\ CrawlIdle
    /\ tasks \in MatchTasks
    /\ SaveInit
    /\ storeFile = NoFile
    /\ ServerIdle
    /\ callArgs \in [fn : {"isComponentLink"}, url : MatchUrls]
    /\ callResult = <<>>

\* this.isComponentLink(url) is called and returns.
callIsComponentLink ==
    /\ callArgs.fn = "isComponentLink"
    /\ callResult = <<>>
    /\ callResult' = << isComponentLink(callArgs.url) >>
    /\ UNCHANGED << callArgs, crawlVars, saveVars, serverVars >>

NextMatch == callIsComponentLink

SpecMatch == InitMatch /\ [][NextMatch]_vars

\* The call of isComponentLink has returned r.
Returned(r) == callArgs.fn = "isComponentLink" /\ callResult = << r >>

\* The source that owns the URL of the call, and whether a pattern of a list
\* matches the URL's path with one trailing slash stripped.
Owner == tasks[getTaskGroupByUrl(callArgs.url)]

SomeMatch(patterns) ==
    \E k \in DOMAIN patterns :
        PatternTest(patterns[k], pathWithoutTrailingSlash(callArgs.url))

\* C14: isComponentLink is false whenever an exclude pattern of the owning
\* source matches the URL's path, whatever the include patterns are, also
\* when an include pattern matches the same path.
C14_ExcludeBeforeInclude ==
    (/\ callArgs.fn = "isComponentLink"
     /\ callResult # <<>>
     /\ getTaskGroupByUrl(callArgs.url) # 0
     /\ SomeMatch(Owner.excludePatterns))
        => callResult = << FALSE >>

\* A call that returned false for a path which an exclude pattern and an
\* include pattern both match.
C14_Witness ==
    /\ Returned(FALSE)
    /\ getTaskGroupByUrl(callArgs.url) # 0
    /\ SomeMatch(Owner.excludePatterns)
    /\ SomeMatch(Owner.includePatterns)

\* C15: for a URL of a registered host whose path no exclude pattern
\* matches, isComponentLink is true when the source has no include pattern
\* and otherwise true exactly when an include pattern matches the path; for
\* a URL of no registered host it is false.
C15_IncludeDecides ==
    (callArgs.fn = "isComponentLink" /\ callResult # <<>>) =>
        IF getTaskGroupByUrl(callArgs.url) = 0
        THEN callResult = << FALSE >>
        ELSE ~ SomeMatch(Owner.excludePatterns) =>
                IF Owner.includePatterns = <<>>
                THEN callResult = << TRUE >>
                ELSE callResult = << SomeMatch(Owner.includePatterns) >>

\* A call that returned false for a path that no exclude pattern matches and
\* none of the source's include patterns matches.
C15_Witness ==
    /\ Returned(FALSE)
    /\ getTaskGroupByUrl(callArgs.url) # 0
    /\ ~ SomeMatch(Owner.excludePatterns)
    /\ Owner.includePatterns # <<>>
    /\ ~ SomeMatch(Owner.includePatterns)

\* ------------------------------------------------------ flushes of one writer

\* Texts of four-letter words: Word(k) is the k-th word, Text(ks) the words
\* ks joined by single spaces.
Letters == <<"a", "b", "c", "d", "e", "f", "g", "h", "i", "j", "k", "l", "m", "n", "o">>

Word(k) == << Letters[k], Letters[k], Letters[k], Letters[k] >>

RECURSIVE Text(_)
Text(ks) ==
    IF ks = <<>> THEN <<>>
    ELSE IF Len(ks) = 1 THEN Word(Head(ks))
    ELSE Word(Head(ks)) \o <<" ">> \o Text(Tail(ks))

\* The two pages handed to savePage: the first of ten words, the second of
\* the first s of them and e other words, under the same title or another.
MergePages ==
    { ("u1" :> [title |-> <<"T">>, content |-> Text([k \in 1..10 |-> k])]) @@
      ("u2" :> [title |-> t,
                content |-> Text([k \in 1..(s + e) |-> IF k <= s THEN k ELSE 10 + k - s])]) :
        t \in {<<"T">>, <<"U">>}, s \in 5..10, e \in 0..5 }

\* The pending sets the flushes take, in order: both URLs in one flush, in
\* either order, or one URL in each of two flushes.
MergeBatches ==
    { << <<"u1", "u2">> >>, << <<"u2", "u1">> >>,
      << <<"u1">>, <<"u2">> >>, << <<"u2">>, <<"u1">> >> }

\* One writer, no store file yet: callResult holds the page map of the store
\* and what the last flush counted.
InitMerge ==
    /\ CrawlIdle
    /\ tasks = <<>>
    /\ SaveInit
    /\ storeFile = NoFile
    /\ ServerIdle
    /\ callArgs \in [fn : {"flush"}, saved : MergePages, batches : MergeBatches]
    /\ callResult = << [pages |-> <<>>, updateCount |-> 0, skipped |-> {}] >>

\* A flush that nothing interrupts: the store is loaded, the pending pages
\* are merged into it, and unless updateCount is 0 the result replaces the
\* store.
callFlush ==
    /\ callArgs.fn = "flush"
    /\ callArgs.batches # <<>>
    /\ callResult' =
         << mergePending([pages |-> callResult[1].pages, updateCount |-> 0, skipped |-> {}],
                         Head(callArgs.batches), callArgs.saved) >>
    /\ callArgs' = [callArgs EXCEPT !.batches = Tail(@)]
    /\ UNCHANGED << crawlVars, saveVars, serverVars >>

NextMerge == callFlush

SpecMerge == InitMerge /\ [][NextMerge]_vars

\* The significant words of the page saved under a URL, and how many of the
\* words of one page are words of the other.
WordsOf(url) == significantWords(callArgs.saved[url].content)

SharedWords(url, other) ==
    Cardinality({i \in DOMAIN WordsOf(url) :
                    \E j \in DOMAIN WordsOf(other) : WordsOf(url)[i] = WordsOf(other)[j]})

\* The word counts differ by at most 30% of either, and at least pct/10 of
\* the words of each page are words of the other.
NearEqualCounts ==
    /\ 10 * Abs(Len(WordsOf("u1")) - Len(WordsOf("u2"))) <= 3 * Len(WordsOf("u1"))
    /\ 10 * Abs(Len(WordsOf("u1")) - Len(WordsOf("u2"))) <= 3 * Len(WordsOf("u2"))

SharedAtLeast(tenths) ==
    /\ 10 * SharedWords("u1", "u2") >= tenths * Len(WordsOf("u1"))
    /\ 10 * SharedWords("u2", "u1") >= tenths * Len(WordsOf("u2"))

AllFlushed == callArgs.fn = "flush" /\ callArgs.batches = <<>>

\* C16: two pages of one source under different URLs, with the same title,
\* near-equal counts of significant words and at least 70% of them shared
\* (exactly 70% included): once both are flushed, in one flush or in two,
\* only one of the two URLs is a key of the store.
C16_NearDuplicateStoredOnce ==
    (/\ AllFlushed
     /\ callArgs.saved["u1"].title = callArgs.saved["u2"].title
     /\ NearEqualCounts
     /\ SharedAtLeast(7))
        => ~ ({"u1", "u2"} \subseteq DOMAIN callResult[1].pages)

\* C17: a flush whose pending pages change nothing in the page map it loaded
\* (each is skipped as a near-duplicate, or is in the store already under
\* its own URL with the same title and content) does not go on to write the
\* temporary file and rename it over the store: with the merged page map
\* equal to the loaded one, the flush does not pass the updateCount test.
C17_UnchangedStoreNotRewritten ==
    [][\A p \in Procs :
          (fpc[p] = "read" /\ fpc'[p] = "access2")
              => existingData'[p] # parseStore(storeFile)]_vars

\* C18: when a flush has read a store file that no parse can read, the text
\* is copied to a backup file and the flush then goes on, to its merge, with
\* an empty page map.
C18_UnreadableStoreBackedUp ==
    [][\A p \in Procs :
          (/\ fpc[p] \in {"read", "errorBak"}
           /\ fpc'[p] \in {"access2", "release"}
           /\ (fpc[p] = "read" => storeFile.exists /\ ~ storeFile.whole))
              => /\ \E f \in errorBakFiles' : ~ f.whole
                 /\ existingData'[p] =
                      mergePending([pages |-> <<>>, updateCount |-> 0, skipped |-> {}],
                                   flushUrls[p], savedPages[p]).pages]_vars

\* C19: a flush that fails because another writer holds the lock is retried
\* once: the timer callback of such a flush does not end (and resolve the
\* save promise) before _performActualSave has run a second time for it.
C19_FailedFlushRetried ==
    [][\A p \in Procs :
          (/\ fpc[p] = "release"
           /\ ~ holdsLock[p]
           /\ fpc'[p] = "idle"
           /\ nCrashes' = nCrashes)
              => flushRuns[p] >= 2]_vars

\* The step in which the body of p's flush ends and its finally block is
\* next, and whether the body ended without an error: by the early return on
\* updateCount = 0 or past the rename; the rename of a temporary file that is
\* no longer there throws.
FlushBodyEnds(p) == fpc[p] # "release" /\ fpc'[p] = "release"

EndsWithoutError(p) ==
    \/ fpc[p] \in {"access", "read", "errorBak", "unlinkBak"}
    \/ fpc[p] = "rename" /\ tempFile.exists

EndsWithError(p) == fpc[p] = "rename" /\ ~ tempFile.exists

\* C20: when a flush ends without an error none of the URLs of its snapshot
\* is pending any more, also when all of them were skipped as near-duplicates
\* and nothing was written; when it ends with an error all of them are still
\* pending.
C20_PendingClearedOnSuccessOnly ==
    [][\A p \in Procs :
          FlushBodyEnds(p) =>
              /\ EndsWithoutError(p) =>
                    \A u \in Range(flushUrls'[p]) : u \notin Range(pendingSaves'[p])
              /\ EndsWithError(p) =>
                    \A u \in Range(flushUrls'[p]) : u \in Range(pendingSaves'[p])]_vars

\* C21: when a flush that created the lock file returns, whether it wrote the
\* store, returned early with nothing to save or threw, the lock file it
\* created is no longer there.
C21_LockRemovedAtReturn ==
    [][\A p \in Procs :
          (/\ fpc[p] = "release"
           /\ holdsLock[p]
           /\ fpc'[p] = "idle"
           /\ nCrashes' = nCrashes)
              => ~ (lockFile'.exists /\ lockFile'.owner = p)]_vars

\* A single writer whose flush created the lock file, skipped all its pages
\* and returned early: its URLs are still pending and the lock file is gone.
C21_Witness ==
    \E p \in Procs :
        /\ nCrashes = 0
        /\ \A q \in Procs \ {p} : savedPages[q] = <<>> /\ fpc[q] = "idle"
        /\ fpc[p] = "idle"
        /\ flushRuns[p] = 1
        /\ flushUrls[p] # <<>>
        /\ Range(flushUrls[p]) \subseteq Range(pendingSaves[p])
        /\ ~ lockFile.exists

\* A store file whose text is JSON of the canonical shape: every byte of one
\* JSON.stringify(existingData, null, 2), with a page map whose values have
\* a title and a content.
CanonicalStore(file) ==
    /\ file.exists
    /\ file.whole
    /\ ~ file.module
    /\ \A u \in DOMAIN file.pages : DOMAIN file.pages[u] = {"title", "content"}

\* C22: when a flush has renamed its temporary file over the store and ends
\* without an error, the store file is valid JSON of the canonical shape.
C22_StoreCanonicalAfterFlush ==
    [][\A p \in Procs :
          (/\ FlushBodyEnds(p)
           /\ \/ fpc[p] = "unlinkBak"
              \/ fpc[p] = "rename" /\ tempFile.exists)
              => CanonicalStore(storeFile')]_vars

\* ------------------------------------------------- a page through the store

\* JSON.stringify of a string: the quoted text, with a backslash before every
\* backslash and double quote and the two-character forms of the control
\* characters. jsonParse reads such a text back.
jsonStringify(str) == <<"\"">> \o escapeString(str) \o <<"\"">>

RECURSIVE unescapeString(_)
unescapeString(text) ==
    IF text = <<>> THEN <<>>
    ELSE IF Head(text) = "\\" /\ Len(text) >= 2
         THEN LET c == text[2]
                  ch == CASE c = "n" -> "\n"
                          [] c = "r" -> "\r"
                          [] c = "t" -> "\t"
                          [] c = "f" -> "\f"
                          [] OTHER -> c
              IN  <<ch>> \o unescapeString(SubSeq(text, 3, Len(text)))
         ELSE <<Head(text)>> \o unescapeString(Tail(text))

jsonParse(text) == unescapeString(SubSeq(text, 2, Len(text) - 1))

\* The strings handed to savePage as title and as content: one or two
\* characters, a backslash, a double quote, a newline and a tab among them.
StoreChars == {"a", "n", "\\", "\"", "\n", "\t"}

StoreStrings ==
    {<<c>> : c \in StoreChars} \cup {<<c, d>> : c \in StoreChars, d \in StoreChars}

InitStore ==
    /\ CrawlIdle
    /\ tasks = <<>>
    /\ SaveInit
    /\ storeFile = NoFile
    /\ ServerIdle
    /\ callArgs \in [fn : {"store"}, url : {"u1"},
                     pageData : [title : {<<"T">>, <<"\\">>}, content : StoreStrings]]
    /\ callResult = <<>>

\* savePage(source, url, pageData), the flush that follows (no store file
\* yet, nothing interrupts it) and a read of the store file: the page that
\* JSON.parse finds under the URL.
callStore ==
    /\ callArgs.fn = "store"
    /\ callResult = <<>>
    /\ LET merged == mergePending([pages |-> <<>>, updateCount |-> 0, skipped |-> {}],
                                  << callArgs.url >>,
                                  (callArgs.url :> callArgs.pageData))
           page == merged.pages[callArgs.url]
           text == [title |-> jsonStringify(page.title),
                    content |-> jsonStringify(page.content)]
       IN  callResult' = << [title |-> jsonParse(text.title),
                             content |-> jsonParse(text.content)] >>
    /\ UNCHANGED << callArgs, crawlVars, saveVars, serverVars >>

NextStore == callStore

SpecStore == InitStore /\ [][NextStore]_vars

\* C23: the page read back from the store under the URL has exactly the
\* title and the content that were passed to savePage, also when they hold
\* backslashes, double quotes, newlines or tabs.
C23_StoredAsPassed ==
    (callArgs.fn = "store" /\ callResult # <<>>)
        => callResult[1] = callArgs.pageData

\* ------------------------------------------------ calls of getNormalizedUrl

\* The URLs getNormalizedUrl is called with: with and without a path, with
\* up to three trailing slashes, a query and a fragment.
NormalizeUrls ==
    { Url(h, p, sl, q, f) :
        h \in {"x", "y"}, p \in {<<>>, <<"a">>, <<"a", "b">>},
        sl \in 0..3, q \in BOOLEAN, f \in BOOLEAN }

InitNormalize ==
    /\ CrawlIdle
    /\ tasks = <<>>
    /\ SaveInit
    /\ storeFile = NoFile
    /\ ServerIdle
    /\ callArgs \in [fn : {"getNormalizedUrl"}, url : NormalizeUrls]
    /\ callResult = <<>>

\* this.getNormalizedUrl(url) is called and returns.
callGetNormalizedUrl ==
    /\ callArgs.fn = "getNormalizedUrl"
    /\ callResult = <<>>
    /\ callResult' = << getNormalizedUrl(callArgs.url) >>
    /\ UNCHANGED << callArgs, crawlVars, saveVars, serverVars >>

NextNormalize == callGetNormalizedUrl

SpecNormalize == InitNormalize /\ [][NextNormalize]_vars

\* C24: getNormalizedUrl is idempotent: what it returns for a URL, also one
\* with a query, a fragment or several trailing slashes, it returns
\* unchanged when called on it again.
C24_NormalizeIdempotent ==
    (callArgs.fn = "getNormalizedUrl" /\ callResult # <<>>)
        => getNormalizedUrl(callResult[1]) = callResult[1]

\* C25: when the browser cannot be started, init throws to main and leaves
\* the flag false, and the run ends in the catch block of main: no source is
\* registered and no URL is made pending or dispatched. Without the flag set
\* the run is before init or aborted.
C25_InitFailureAborts ==
    /\ qpc = "aborted" => ~ initialized
    /\ ~ initialized =>
          /\ qpc \in {"init", "aborted"}
          /\ tasks = <<>>
          /\ everPending = {}
          /\ batch = <<>>
          /\ attempts = <<>>
          /\ savePageCalls = {}

\* A run whose init has thrown.
C25_Witness == qpc = "aborted" /\ ~ initialized /\ todo # <<>>

\* ------------------------------------------------------------ the MCP server

\* The docs directory changes at most MaxDirChanges times and the tools are
\* called at most MaxCalls times.
MaxDirChanges == 2

MaxCalls == 2

\* String.prototype.toLowerCase on the names met here.
toLowerCase(str) ==
    CASE str \in {"Alpha", "ALPHA"} -> "alpha"
      [] str = "Beta" -> "beta"
      [] str = "Beta-docs" -> "beta-docs"
      [] OTHER -> str

\* The properties every object inherits from Object.prototype: obj[key] is
\* a function for these keys also when obj has no such key of its own.
PrototypeKeys == {"constructor", "toString"}

\* A title or a content is the sequence of its words; str.includes(term)
\* holds when the term is one of them, and id.includes(term) when the term
\* is the id.
includes(str, term) == \E i \in DOMAIN str : str[i] = term

\* The texts a .json file of the docs directory may hold: no JSON, JSON
\* without pages, or a document with pages whose source.name is absent ("")
\* or given.
OnePage == "u1" :> [title |-> <<"intro">>, content |-> <<"setup">>]

TwoPages ==
    ("u1" :> [title |-> <<"intro">>, content |-> <<"guide">>]) @@
    ("u2" :> [title |-> <<>>, content |-> <<"intro", "setup">>])

DocTexts ==
    { [json |-> FALSE, hasPages |-> FALSE, name |-> "", pages |-> <<>>],
      [json |-> TRUE, hasPages |-> FALSE, name |-> "Alpha", pages |-> <<>>],
      [json |-> TRUE, hasPages |-> TRUE, name |-> "", pages |-> OnePage],
      [json |-> TRUE, hasPages |-> TRUE, name |-> "Alpha", pages |-> TwoPages],
      [json |-> TRUE, hasPages |-> TRUE, name |-> "pages", pages |-> OnePage] }

\* fs.readdirSync(docsDir).filter(file => file.endsWith('.json')), in the
\* order of the file names, without the extension.
DocFiles == << "Beta-docs", "alpha-docs" >>

\* loadDocsFromDir: every file is read and parsed; a text that is no JSON or
\* has no pages is passed over, and any other is set in docData under its
\* lower-case source.name, or under its lower-case file name without one.
RECURSIVE loadDocsFromDir(_, _, _)
loadDocsFromDir(acc, dir, files) ==
    IF files = <<>> THEN acc
    ELSE LET file == Head(files)
             docContent == dir[file]
             sourceName == IF docContent.name # "" THEN toLowerCase(docContent.name)
                           ELSE toLowerCase(file)
         IN  IF file \notin DOMAIN dir \/ ~ docContent.json \/ ~ docContent.hasPages
             THEN loadDocsFromDir(acc, dir, Tail(files))
             ELSE loadDocsFromDir(
                    [docData |-> MapSet(acc.docData, sourceName,
                                    [name |-> IF docContent.name # "" THEN docContent.name
                                              ELSE sourceName,
                                     pages |-> docContent.pages]),
                     loadedCount |-> acc.loadedCount + 1],
                    dir, Tail(files))

\* ensureDocsLoaded: nothing is done when docsLoaded is set and docData has
\* a key; otherwise the directory is loaded into docData, on top of what it
\* holds, and docsLoaded is set when a file was loaded.
ensureDocsLoaded(data, loaded, dir) ==
    IF loaded /\ data # <<>>
    THEN [docData |-> data, docsLoaded |-> loaded, result |-> TRUE]
    ELSE LET r == loadDocsFromDir([docData |-> data, loadedCount |-> 0], dir, DocFiles)
         IN  [docData |-> r.docData,
              docsLoaded |-> loaded \/ r.loadedCount > 0,
              result |-> r.loadedCount > 0]

\* Object.keys(docData).forEach(key => delete docData.key): the property
\* named "key" is deleted, once for every key of docData.
deleteKeys(data) == MapDelete(data, "key")

\* The matches of the query terms in docs (id -> page): every term is in the
\* title, the content or the id; the score counts 10, 5 and 3 for each. With
\* fewer than `limit` entries .slice(0, limit) drops none.
searchResults(docs, queryTerms, source) ==
    { [id |-> id,
       title |-> IF docs[id].title # <<>> THEN docs[id].title ELSE <<id>>,
       score |-> (10 * Cardinality({i \in DOMAIN queryTerms : includes(docs[id].title, queryTerms[i])}))
               + (5 * Cardinality({i \in DOMAIN queryTerms : includes(docs[id].content, queryTerms[i])}))
               + (3 * Cardinality({i \in DOMAIN queryTerms : queryTerms[i] = id})),
       source |-> IF docs[id].source # "" THEN docs[id].source ELSE source] :
        id \in { d \in DOMAIN docs :
                    \A i \in DOMAIN queryTerms :
                        \/ includes(docs[d].title, queryTerms[i])
                        \/ includes(docs[d].content, queryTerms[i])
                        \/ queryTerms[i] = d } }

\* The pages of all sources merged into one object, each with the name of
\* its source; of two sources with a page of the same id the later one's
\* page stays.
RECURSIVE allDocs(_)
allDocs(data) ==
    IF data = <<>> THEN <<>>
    ELSE LET last == data[Len(data)]
             pg == last.value.pages
         IN  [id \in DOMAIN pg |->
                [title |-> pg[id].title, content |-> pg[id].content, source |-> last.key]]
             @@ allDocs(SubSeq(data, 1, Len(data) - 1))

\* docData.pages when docData has a source named "pages": the document data
\* of that source, an object with the keys source, lastUpdated and pages,
\* none of which has a title or a content.
docDataPages ==
    [id \in {"source", "lastUpdated", "pages"} |->
        [title |-> <<>>, content |-> <<>>, source |-> ""]]

\* The body of search_docs after a possible load, on the document data
\* `data`.
searchDocs(data, query, source) ==
    IF source # "" /\ (~ MapHas(data, toLowerCase(source)) \/ ~ MapHas(data, "pages"))
    THEN [kind |-> "error", error |-> "source not found"]
    ELSE [kind |-> "results",
          results |-> searchResults(IF source # "" THEN docDataPages
                                    ELSE allDocs(data),
                                    query, source)]

\* The arguments the tools are called with.
Queries == { <<"reload">>, <<"intro">>, <<"intro", "setup">> }

SourceArgs == { "", "alpha", "ALPHA", "beta-docs", "pages" }

DocIds == { "u1", "u2", "constructor" }

\* The server process starts: ensureDocsLoaded() and then server.connect.
serverStart ==
    /\ callArgs.fn = "none"
    /\ LET r == ensureDocsLoaded(docData, docsLoaded, docsDir)
       IN  /\ docData' = r.docData
           /\ docsLoaded' = r.docsLoaded
    /\ callArgs' = [fn |-> "start", n |-> 0]
    /\ UNCHANGED << callResult, docsDir, nDirChanges, isLoadingDocs, loadCalls,
                    crawlVars, saveVars >>

\* The crawler replaces or creates a file of the docs directory, or a file
\* is removed.
writeDoc(file, text) ==
    /\ nDirChanges < MaxDirChanges
    /\ nDirChanges' = nDirChanges + 1
    /\ docsDir' = (file :> text) @@ docsDir
    /\ UNCHANGED << docData, docsLoaded, isLoadingDocs, loadCalls, callVars,
                    crawlVars, saveVars >>

removeDoc(file) ==
    /\ nDirChanges < MaxDirChanges
    /\ file \in DOMAIN docsDir
    /\ nDirChanges' = nDirChanges + 1
    /\ docsDir' = [f \in DOMAIN docsDir \ {file} |-> docsDir[f]]
    /\ UNCHANGED << docData, docsLoaded, isLoadingDocs, loadCalls, callVars,
                    crawlVars, saveVars >>

\* The tool search_docs({query, source, limit}), limit left at its default.
search_docs(query, source) ==
    /\ callArgs.fn # "none"
    /\ callArgs.n < MaxCalls
    /\ callArgs' = [fn |-> "search_docs", n |-> callArgs.n + 1,
                    query |-> query, source |-> source]
    /\ IF query = <<"reload">>
       THEN LET r == ensureDocsLoaded(deleteKeys(docData), FALSE, docsDir)
            IN  /\ docData' = r.docData
                /\ docsLoaded' = r.docsLoaded
                /\ callResult' = << [kind |-> "reload", ok |-> r.result,
                                     sources |-> MapKeys(r.docData)] >>
       ELSE LET r == IF docData = <<>>
                     THEN ensureDocsLoaded(docData, docsLoaded, docsDir)
                     ELSE [docData |-> docData, docsLoaded |-> docsLoaded, result |-> TRUE]
            IN  /\ docData' = r.docData
                /\ docsLoaded' = r.docsLoaded
                /\ callResult' = << searchDocs(r.docData, query, source) >>
    /\ UNCHANGED << docsDir, nDirChanges, isLoadingDocs, loadCalls, crawlVars,
                    saveVars >>

\* The tool get_doc_detail({id, source}): docData is loaded when it is
\* empty; the page is looked up with pages[id] in the named source, or in
\* every source in turn without one.
pageOf(pagesObj, id) ==
    IF id \in DOMAIN pagesObj THEN << pagesObj[id] >>
    ELSE IF id \in PrototypeKeys THEN << [title |-> <<>>, content |-> <<>>] >>
    ELSE <<>>

docDetail(id, page, sourceName) ==
    [id |-> id,
     title |-> IF page.title # <<>> THEN page.title ELSE <<id>>,
     content |-> page.content,
     source |-> sourceName,
     url |-> id]

RECURSIVE firstWithPage(_, _)
firstWithPage(data, id) ==
    IF data = <<>> THEN <<>>
    ELSE IF pageOf(Head(data).value.pages, id) # <<>>
         THEN << docDetail(id, pageOf(Head(data).value.pages, id)[1], Head(data).key) >>
         ELSE firstWithPage(Tail(data), id)

getDocDetail(data, id, source) ==
    IF source # ""
    THEN LET sourceLower == toLowerCase(source)
         IN  IF ~ MapHas(data, sourceLower)
             THEN [kind |-> "error", error |-> "source not found"]
             ELSE LET page == pageOf(MapGet(data, sourceLower).pages, id)
                  IN  IF page = <<>>
                      THEN [kind |-> "error", error |-> "id not found"]
                      ELSE [kind |-> "document",
                            document |-> docDetail(id, page[1], sourceLower)]
    ELSE LET found == firstWithPage(data, id)
         IN  IF found = <<>>
             THEN [kind |-> "error", error |-> "id not found"]
             ELSE [kind |-> "document", document |-> found[1]]

get_doc_detail(id, source) ==
    /\ callArgs.fn # "none"
    /\ callArgs.n < MaxCalls
    /\ callArgs' = [fn |-> "get_doc_detail", n |-> callArgs.n + 1,
                    id |-> id, source |-> source]
    /\ LET r == IF docData = <<>>
                THEN ensureDocsLoaded(docData, docsLoaded, docsDir)
                ELSE [docData |-> docData, docsLoaded |-> docsLoaded, result |-> TRUE]
       IN  /\ docData' = r.docData
           /\ docsLoaded' = r.docsLoaded
           /\ callResult' =
                IF ~ r.result \/ r.docData = <<>>
                THEN << [kind |-> "error", error |-> "no document data"] >>
                ELSE << getDocDetail(r.docData, id, source) >>
    /\ UNCHANGED << docsDir, nDirChanges, isLoadingDocs, loadCalls, crawlVars,
                    saveVars >>

\* The server process, its docs directory holding none, one or both files.
InitServer ==
    /\ CrawlIdle
    /\ tasks = <<>>
    /\ SaveInit
    /\ storeFile = NoFile
    /\ callArgs = [fn |-> "none"]
    /\ callResult = <<>>
    /\ docData = <<>>
    /\ docsLoaded = FALSE
    /\ docsDir \in { <<>> } \cup
                   { ("alpha-docs" :> t) : t \in DocTexts } \cup
                   { ("alpha-docs" :> t1) @@ ("Beta-docs" :> t2) :
                        t1 \in DocTexts, t2 \in DocTexts }
    /\ nDirChanges = 0
    /\ isLoadingDocs = FALSE
    /\ loadCalls = <<>>

NextServer ==
    \/ serverStart
    \/ \E i \in DOMAIN DocFiles, text \in DocTexts : writeDoc(DocFiles[i], text)
    \/ \E i \in DOMAIN DocFiles : removeDoc(DocFiles[i])
    \/ \E query \in Queries, source \in SourceArgs : search_docs(query, source)
    \/ \E id \in DocIds, source \in SourceArgs : get_doc_detail(id, source)

SpecServer == InitServer /\ [][NextServer]_vars

\* The pages of the loaded source that a source argument names, and the
\* pages among them that hold every term of the query.
NamedSourcePages(source) ==
    [id \in DOMAIN MapGet(docData, toLowerCase(source)).pages |->
        [title |-> MapGet(docData, toLowerCase(source)).pages[id].title,
         content |-> MapGet(docData, toLowerCase(source)).pages[id].content,
         source |-> ""]]

\* C26: search_docs with a source argument that names a loaded source, in
\* any letter case, answers with the matches among that source's pages and
\* not with a 'source not found' error.
C26_NamedSourceIsSearched ==
    (/\ callArgs.fn = "search_docs"
     /\ callArgs.query # <<"reload">>
     /\ callArgs.source # ""
     /\ MapHas(docData, toLowerCase(callArgs.source)))
        => /\ callResult[1].kind = "results"
           /\ callResult[1].results =
                searchResults(NamedSourcePages(callArgs.source), callArgs.query,
                              callArgs.source)

\* What docData holds when the docs directory is loaded into an empty object.
FreshLoad(dir) == loadDocsFromDir([docData |-> <<>>, loadedCount |-> 0], dir, DocFiles).docData

\* C27: when search_docs is called with the query 'reload', docData holds
\* afterwards exactly the sources that the docs directory holds at that
\* moment, with their pages: no source of a file that is gone stays.
C27_ReloadMatchesDirectory ==
    [][(/\ callArgs' # callArgs
        /\ callArgs'.fn = "search_docs"
        /\ callArgs'.query = <<"reload">>)
            => Range(docData') = Range(FreshLoad(docsDir))]_vars

\* The page that the named source stores under the id, if it stores one.
StoredUnder(source, id) ==
    IF MapHas(docData, toLowerCase(source))
       /\ id \in DOMAIN MapGet(docData, toLowerCase(source)).pages
    THEN << MapGet(docData, toLowerCase(source)).pages[id] >>
    ELSE <<>>

\* C28: get_doc_detail(id, source) answers with a document exactly when the
\* named source, its name taken in lower case, stores a page under the id;
\* the document then has that id and that page's content, and otherwise the
\* answer is an error without a document.
C28_DetailOfRequestedId ==
    (callArgs.fn = "get_doc_detail" /\ callArgs.source # "")
        => IF StoredUnder(callArgs.source, callArgs.id) # <<>>
           THEN /\ callResult[1].kind = "document"
                /\ callResult[1].document.id = callArgs.id
                /\ callResult[1].document.content =
                        StoredUnder(callArgs.source, callArgs.id)[1].content
                /\ callResult[1].document.source = toLowerCase(callArgs.source)
           ELSE callResult[1].kind = "error"

\* C29: every attempt of processUrl gets from browserManager.getPage a page
\* that has not been closed: a page closed after an earlier attempt on the
\* URL is not handed out again.
C29_FreshPagePerAttempt ==
    [][\A i \in DOMAIN batch :
            (/\ batch[i].pc = "fetch"
             /\ i \in DOMAIN batch'
             /\ batch'[i].pc # "fetch"
             /\ batch'[i].page)
                => getPage(browserPages, batch[i].url).page \notin closedPages]_vars

\* C30: a flush that finds the lock file present goes on, when the lock is
\* at most 30 s old, to try again to create the lock file, and when the lock
\* is older, to remove it, to write its own and to hold the lock.
C30_PresentLockWaitedOrReclaimed ==
    [][\A p \in Procs :
        (fpc'[p] # fpc[p] /\ nCrashes' = nCrashes)
            => /\ (fpc[p] = "lockStat" /\ lockFile.exists /\ ~ lockFile.stale)
                    => fpc'[p] = "lock"
               /\ (fpc[p] = "lockStat" /\ lockFile.exists /\ lockFile.stale)
                    => fpc'[p] = "lockUnlink"
               /\ fpc[p] = "lockUnlink" => ~ lockFile'.exists /\ fpc'[p] = "lockWrite"
               /\ fpc[p] = "lockWrite"
                    => holdsLock'[p] /\ lockFile'.exists /\ lockFile'.owner = p]_vars

\* The keys that a step adds to pendingUrls, and the steps in which the link
\* loop of processUrl runs (the tasks awaiting a save promise go on).
NewPending == { k \in MapKeys(pendingUrls') : ~ MapHas(pendingUrls, k) }

LinkDiscovery ==
    \E name \in SourceNames : saveWaiters[name] # <<>> /\ saveWaiters'[name] = <<>>

\* C31: link discovery adds a link to pendingUrls, as pending, only when it
\* is neither in processingUrls nor a key of its owner's pages, and changes
\* no entry that pendingUrls has; so the URL of a page that is done or in
\* flight, which processUrl knows by its normalized form, is not made
\* pending again.
C31_DoneOrInFlightNotEnqueued ==
    [][LinkDiscovery =>
        /\ \A k \in NewPending :
            /\ MapGet(pendingUrls', k) = [status |-> "pending"]
            /\ k \notin processingUrls'
            /\ k \notin DOMAIN pages'[tasks[getTaskGroupByUrl(k)].name]
            /\ getNormalizedUrl(k) \notin processingUrls'
            /\ getNormalizedUrl(k) \notin DOMAIN pages'[tasks[getTaskGroupByUrl(k)].name]
        /\ \A k \in MapKeys(pendingUrls) :
            MapHas(pendingUrls', k) /\ MapGet(pendingUrls', k) = MapGet(pendingUrls, k)]_vars

\* A pattern matches the whole of a path, from its first character to its
\* last: for a pattern without wildcard, as the patterns here are, the path
\* is the pattern's segments and nothing else.
WholePathMatch(pat, p) == p.path = pat /\ p.slashes = 0

\* C32: with include patterns, isComponentLink is true for a URL only when
\* one of them matches the whole path of the URL, its trailing slash
\* stripped, and not when the pattern only occurs in a part of the path.
C32_IncludeMatchesWholePath ==
    (/\ Returned(TRUE)
     /\ Owner.includePatterns # <<>>)
        => \E k \in DOMAIN Owner.includePatterns :
                WholePathMatch(Owner.includePatterns[k],
                               pathWithoutTrailingSlash(callArgs.url))

\* ------------------------------------------------ the error page of a URL

\* errorPageData of processUrl after the last failed attempt: the title is
\* made of the last segment of the URL and the content of error.message.
errorPageData(segment, message) ==
    [title |-> <<"F", ":", segment>>, content |-> <<"E", ":", message>>]

\* The pages an earlier run may have left in the store file under a URL.
OkPages ==
    { [title |-> <<"T">>, content |-> <<"d", "o", "c", "s">>],
      [title |-> <<"U">>, content |-> <<"t", "e", "x", "t">>] }

ErrorMessages == {"timeout", "detached", "closed"}

\* The store files the run finds: under u1, the URL that fails, and under
\* u2, whose last segment is the same, a page of an earlier run, the error
\* page of an earlier run, or nothing.
ErrorStores ==
    LET entries == {<<>>} \cup { << pg >> : pg \in OkPages }
                          \cup { << errorPageData("s", m) >> : m \in ErrorMessages }
    IN  { [u \in { v \in {"u1", "u2"} : (IF v = "u1" THEN e1 ELSE e2) # <<>> } |->
                (IF u = "u1" THEN e1 ELSE e2)[1]] :
            e1 \in entries, e2 \in entries }

InitErrorPage ==
    /\ CrawlIdle
    /\ tasks = <<>>
    /\ SaveInit
    /\ storeFile = NoFile
    /\ ServerIdle
    /\ callArgs \in [fn : {"errorPage"}, url : {"u1"}, message : ErrorMessages,
                     store : ErrorStores]
    /\ callResult = <<>>

\* The last attempt on the URL fails: the catch block makes the error page
\* and passes it to savePage, and the flush that follows (nothing interrupts
\* it) merges it into the pages of the store file.
callErrorPage ==
    /\ callArgs.fn = "errorPage"
    /\ callResult = <<>>
    /\ callResult' =
         << mergePending([pages |-> callArgs.store, updateCount |-> 0, skipped |-> {}],
                         << callArgs.url >>,
                         (callArgs.url :> errorPageData("s", callArgs.message))) >>
    /\ UNCHANGED << callArgs, crawlVars, saveVars, serverVars >>

NextErrorPage == callErrorPage

SpecErrorPage == InitErrorPage /\ [][NextErrorPage]_vars

\* C33: when the store file holds a page of an earlier run under the URL
\* whose retries are exhausted, the store holds that page under the URL
\* also after the error page was saved and flushed.
C33_ErrorPageKeepsPriorWork ==
    (/\ callArgs.fn = "errorPage"
     /\ callResult # <<>>
     /\ callArgs.url \in DOMAIN callArgs.store
     /\ callArgs.store[callArgs.url] \in OkPages)
        => /\ callArgs.url \in DOMAIN callResult[1].pages
           /\ callResult[1].pages[callArgs.url] = callArgs.store[callArgs.url]

\* ------------------------------------------------- the retry loop of a URL

\* The configured crawlerConfig.maxRetries ranges over 1..MaxConfigRetries.
MaxConfigRetries == 4

\* crawlerConfig.retryDelay, in ms.
RetryDelays == {1000, 2000, 3000}

\* The factors of retryCount in the delay before a retry, in ms: for an
\* error whose message names a detached Frame, and for any other.
detachedFrameDelay == 5000

standardDelay == 2000

\* What each attempt of the URL does, should it be made.
Outcomes == {"ok", "error", "detached Frame"}

\* callResult holds the local state of processUrl: retryCount, the attempts
\* begun, the delays waited in order, and whether the loop has ended.
InitRetry ==
    /\ CrawlIdle
    /\ tasks = <<>>
    /\ SaveInit
    /\ storeFile = NoFile
    /\ ServerIdle
    /\ callArgs \in [fn : {"processUrl"},
                     config : [maxRetries : 1..MaxConfigRetries, retryDelay : RetryDelays],
                     outcomes : [1..(MaxConfigRetries + 1) -> Outcomes]]
    /\ callResult = << [retryCount |-> 0, attempts |-> 0, waits |-> <<>>,
                        ended |-> FALSE] >>

\* One pass of the loop while (retryCount < maxRetries): the attempt
\* succeeds and the loop is left, or it throws and the catch block counts
\* it and waits before the next pass, unless it was the last.
retryLoop ==
    /\ callArgs.fn = "processUrl"
    /\ ~ callResult[1].ended
    /\ callResult[1].attempts < MaxConfigRetries + 1
    /\ LET l == callResult[1]
           outcome == callArgs.outcomes[l.attempts + 1]
           retryCount == l.retryCount + 1
           retryDelay == IF outcome = "detached Frame"
                         THEN retryCount * detachedFrameDelay
                         ELSE retryCount * standardDelay
       IN  callResult' =
             IF outcome = "ok"
             THEN << [l EXCEPT !.attempts = @ + 1, !.ended = TRUE] >>
             ELSE IF retryCount < maxRetries
             THEN << [l EXCEPT !.attempts = @ + 1, !.retryCount = retryCount,
                               !.waits = Append(@, retryDelay)] >>
             ELSE << [l EXCEPT !.attempts = @ + 1, !.retryCount = retryCount,
                               !.ended = TRUE] >>
    /\ UNCHANGED << callArgs, crawlVars, saveVars, serverVars >>

NextRetry == retryLoop

SpecRetry == InitRetry /\ [][NextRetry]_vars

\* C34: whatever crawlerConfig.maxRetries and retryDelay are, a URL is
\* attempted at most maxRetries times, the wait after the k-th failure is k
\* times retryDelay, or longer after a detached-frame error, and no wait
\* follows a failure that was the last attempt.
C34_RetryFollowsConfig ==
    callArgs.fn = "processUrl" =>
        LET l == callResult[1]
        IN  /\ l.attempts <= callArgs.config.maxRetries
            /\ Len(l.waits) < callArgs.config.maxRetries
            /\ \A k \in DOMAIN l.waits :
                IF callArgs.outcomes[k] = "detached Frame"
                THEN l.waits[k] > k * callArgs.config.retryDelay
                ELSE l.waits[k] = k * callArgs.config.retryDelay

\* The hostname of the start URL of the source with a name.
HostOf(name) ==
    docSources[CHOOSE i \in DOMAIN docSources : docSources[i].name = name].url.host

\* C35: a page is set in the pages of a source, and passed to savePage for
\* a source, only when the hostname of the page's URL is the hostname of
\* that source's start URL.
C35_PagesOfOwnHostOnly ==
    /\ \A name \in SourceNames : \A n \in DOMAIN pages[name] : n.host = HostOf(name)
    /\ \A call \in savePageCalls : call[2].host = HostOf(call[1])

\* C36: a flush that ends without having written the lock file (it found
\* the lock of another writer, younger than 30 s) leaves the lock file as it
\* is: it does not delete it.
C36_OnlyHolderRemovesLock ==
    [][\A p \in Procs :
        (/\ fpc[p] = "release"
         /\ fpc'[p] = "idle"
         /\ nCrashes' = nCrashes
         /\ ~ holdsLock[p])
            => lockFile' = lockFile]_vars

\* ------------------------------------- a URL in flight and the link loop

\* The URL that is dispatched: the start URL of the first source, which ends
\* in a slash, or a page under it, written with or without a final slash.
EnqueueUrls ==
    { docSources[1].url,
      Url("x", <<"a", "b">>, 0, FALSE, FALSE),
      Url("x", <<"a", "b">>, 1, FALSE, FALSE) }

\* The same-host links that the page of another task holds: none, one or
\* two of these hrefs.
EnqueueHrefs ==
    { Url("x", <<"a">>, 2, FALSE, FALSE),
      Url("x", <<"a">>, 0, FALSE, FALSE),
      Url("x", <<"a", "b">>, 2, TRUE, TRUE),
      Url("x", <<"a", "b">>, 0, FALSE, FALSE),
      Url("x", <<"a", "c">>, 0, FALSE, FALSE) }

EnqueueLinks ==
    {<<>>} \cup { <<l>> : l \in EnqueueHrefs }
           \cup { <<l1, l2>> : l1 \in EnqueueHrefs, l2 \in EnqueueHrefs }

\* One source is registered, its start URL has been deleted from pendingUrls
\* by the dispatch, and processUrl is about to be called with the URL;
\* callResult holds the processUrl task once it is called.
InitEnqueue ==
    /\ CrawlIdle
    /\ tasks = << docSources[1] >>
    /\ SaveInit
    /\ storeFile = NoFile
    /\ ServerIdle
    /\ callArgs \in [fn : {"enqueue"}, url : EnqueueUrls, links : EnqueueLinks]
    /\ callResult = <<>>

\* processUrl(url, taskGroup) is called and runs to its first await.
enqueueEnter ==
    /\ callArgs.fn = "enqueue"
    /\ callResult = <<>>
    /\ LET r == processUrlEnter(Manager, callArgs.url, 1)
       IN  /\ Store(r.M)
           /\ callResult' = << NewTask(callArgs.url, 1, "fetch") >>
    /\ UNCHANGED << callArgs, todo, maxConcurrency, tasks, batch, qpc,
                    saveWaiters, savePageCalls, everPending, initialized,
                    browserPages, closedPages, saveVars, serverVars >>

\* The attempt throws: the catch block counts it and waits for the backoff
\* delay, or, after the last attempt, sets the error page.
enqueueFails ==
    /\ callArgs.fn = "enqueue"
    /\ callResult # <<>>
    /\ callResult[1].pc = "fetch"
    /\ LET t == callResult[1]
           n == getNormalizedUrl(t.url)
           retryCount == t.retryCount + 1
       IN  /\ pendingUrls' = markFailed(pendingUrls, n)
           /\ IF retryCount < maxRetries
              THEN /\ callResult' = << [t EXCEPT !.pc = "backoff",
                                                 !.retryCount = retryCount] >>
                   /\ UNCHANGED << pages, recorded >>
              ELSE /\ pages' = setErrorPage(pages, tasks[t.gi].name, n)
                   /\ recorded' = Bump(recorded, n)
                   /\ callResult' = << [t EXCEPT !.pc = "saving", !.kind = "error",
                                                 !.retryCount = retryCount] >>
    /\ UNCHANGED << callArgs, todo, maxConcurrency, tasks, processingUrls,
                    activePages, attempts, batch, qpc, saveWaiters,
                    savePageCalls, everPending, initialized, browserPages,
                    closedPages, saveVars, serverVars >>

\* The backoff delay ends: the finally block runs and the loop goes round.
enqueueBackoffDone ==
    /\ callArgs.fn = "enqueue"
    /\ callResult # <<>>
    /\ callResult[1].pc = "backoff"
    /\ LET r == afterFinally(Manager, callResult[1], TRUE)
       IN  /\ Store(r.M)
           /\ callResult' = << r.task >>
    /\ UNCHANGED << callArgs, todo, maxConcurrency, tasks, batch, qpc,
                    saveWaiters, savePageCalls, everPending, initialized,
                    browserPages, closedPages, saveVars, serverVars >>

\* The attempt succeeds: the page is set in taskGroup.pages.
enqueueSucceeds ==
    /\ callArgs.fn = "enqueue"
    /\ callResult # <<>>
    /\ callResult[1].pc = "fetch"
    /\ LET t == callResult[1]
           n == getNormalizedUrl(t.url)
       IN  /\ pages' = [pages EXCEPT ![tasks[t.gi].name] = (n :> "ok") @@ @]
           /\ recorded' = Bump(recorded, n)
           /\ callResult' = << [t EXCEPT !.pc = "saving", !.kind = "ok"] >>
    /\ UNCHANGED << callArgs, todo, maxConcurrency, tasks, pendingUrls,
                    processingUrls, activePages, attempts, batch, qpc,
                    saveWaiters, savePageCalls, everPending, initialized,
                    browserPages, closedPages, saveVars, serverVars >>

\* The link loop of another processUrl task, whose page holds the links of
\* callArgs, runs while this task stands where it stands.
enqueueLinks ==
    /\ callArgs.fn = "enqueue"
    /\ callResult # <<>>
    /\ callArgs.links # <<>>
    /\ Store(addLinks(Manager, callArgs.links))
    /\ callArgs' = [callArgs EXCEPT !.links = <<>>]
    /\ UNCHANGED << callResult, todo, maxConcurrency, tasks, batch, qpc,
                    saveWaiters, savePageCalls, everPending, initialized,
                    browserPages, closedPages, saveVars, serverVars >>

NextEnqueue ==
    \/ enqueueEnter
    \/ enqueueFails
    \/ enqueueBackoffDone
    \/ enqueueSucceeds
    \/ enqueueLinks

SpecEnqueue == InitEnqueue /\ [][NextEnqueue]_vars

\* The processUrl task is between the start of its first attempt and the
\* recording of its URL in pages.
InFlightUnrecorded == callResult # <<>> /\ callResult[1].pc \in {"fetch", "backoff"}

\* C37: from the start of the first attempt on a URL until its page is
\* recorded, also while the task waits in backoff, the normalized URL is in
\* processingUrls, and the link loop of another task does not make the URL
\* a key of pendingUrls again.
C37_InFlightStaysOutOfPending ==
    (callArgs.fn = "enqueue" /\ InFlightUnrecorded)
        => /\ getNormalizedUrl(callResult[1].url) \in processingUrls
           /\ ~ MapHas(pendingUrls, callResult[1].url)

\* ------------------------------------------------- the claims of the scheduler

\* A step of processUrlQueue that claims pending URLs: it deletes their keys
\* from pendingUrls and calls processUrl for them.
ClaimStep ==
    /\ qpc = "queue"
    /\ \E k \in MapKeys(pendingUrls) : ~ MapHas(pendingUrls', k)

\* C38: processUrlQueue claims pending URLs only when nothing it dispatched
\* before is in flight: at every claim step activePages is 0, processingUrls
\* is empty and every callback of the batch before has returned, that of a
\* URL that was retried included.
C38_ClaimsOnlyWhenIdle ==
    [][ClaimStep => /\ activePages = 0
                    /\ processingUrls = {}
                    /\ \A i \in DOMAIN batch : ~ InFlight(batch[i])]_vars

\* A later claim is in flight: a URL that link discovery added is fetched
\* with a free slot left over, after a URL of a batch before was retried and
\* recorded.
C38_Witness ==
    /\ maxConcurrency >= 2
    /\ \E i \in DOMAIN batch :
          /\ batch[i].pc = "fetch"
          /\ \A s \in DOMAIN docSources : batch[i].url # docSources[s].url
    /\ \E n \in DOMAIN recorded : Count(attempts, n) >= 2

\* ------------------------------------------ the order of two similar pages

\* What findSimilarPage returns for the page saved under url when the store
\* holds the page saved under other and nothing else.
suppressedAfter(url, other) ==
    findSimilarPage(url, ensureSafeJsonData(callArgs.saved[url]),
                    (other :> finalPageData(ensureSafeJsonData(callArgs.saved[other]))))

\* C39: for two pages with the same title the suppression does not depend on
\* the order of arrival: when the flushes stored the first page and skipped
\* the second, the first would have been skipped had the second been stored
\* before it.
C39_SuppressionIsSymmetric ==
    (/\ AllFlushed
     /\ callArgs.saved["u1"].title = callArgs.saved["u2"].title)
        => \A first, second \in {"u1", "u2"} :
               (first # second /\ DOMAIN callResult[1].pages = {first})
                   => suppressedAfter(first, second)

\* ------------------------------------------- the document load and its flag

\* ensureDocsLoaded is called at most MaxLoadCalls times, the call of the
\* server start included.
MaxLoadCalls == 3

\* What the file alpha-docs.json holds: no JSON, or a document with pages.
LoadTexts ==
    { [json |-> FALSE, hasPages |-> FALSE, name |-> "", pages |-> <<>>],
      [json |-> TRUE, hasPages |-> TRUE, name |-> "Alpha", pages |-> TwoPages] }

\* What a load meets: a docs directory that is read, no docs directory in
\* either place, or an error that fs.readdirSync throws.
LoadFaults == {"none", "missing", "threw"}

\* The call of ensureDocsLoaded whose loadDocsFromDir is awaited, as an index
\* of loadCalls; 0 when there is none.
loadingCall ==
    IF \E i \in DOMAIN loadCalls : loadCalls[i].pc = "awaitLoad"
    THEN CHOOSE i \in DOMAIN loadCalls : loadCalls[i].pc = "awaitLoad"
    ELSE 0

\* ensureDocsLoaded() up to its first await or its return, called by a
\* handler that left docData and docsLoaded as data and loaded: it returns
\* true at once, or waits for isLoadingDocs, or sets isLoadingDocs and
\* loads; loadDocsFromDir has no await of its own and runs to its end before
\* the caller is suspended. A call frame holds the load that was in progress
\* when the call began (during) and whether the call began a load (loads).
ensureDocsLoadedEnter(handler, data, loaded, fault) ==
    IF loaded /\ data # <<>>
    THEN /\ loadCalls' = Append(loadCalls, [handler |-> handler, pc |-> "returned",
                                            result |-> TRUE, during |-> loadingCall,
                                            loads |-> FALSE])
         /\ docData' = data
         /\ docsLoaded' = loaded
         /\ UNCHANGED isLoadingDocs
    ELSE IF isLoadingDocs
    THEN /\ loadCalls' = Append(loadCalls, [handler |-> handler, pc |-> "waiting",
                                            result |-> FALSE, during |-> loadingCall,
                                            loads |-> FALSE])
         /\ docData' = data
         /\ docsLoaded' = loaded
         /\ UNCHANGED isLoadingDocs
    ELSE IF fault = "missing"
    THEN /\ loadCalls' = Append(loadCalls, [handler |-> handler, pc |-> "returned",
                                            result |-> FALSE, during |-> 0,
                                            loads |-> TRUE])
         /\ docData' = data
         /\ docsLoaded' = loaded
         /\ isLoadingDocs' = FALSE
    ELSE LET r == loadDocsFromDir([docData |-> data, loadedCount |-> 0], docsDir, DocFiles)
         IN  /\ isLoadingDocs' = TRUE
             /\ docData' = IF fault = "threw" THEN data ELSE r.docData
             /\ docsLoaded' = IF fault = "threw" THEN loaded
                              ELSE loaded \/ r.loadedCount > 0
             /\ loadCalls' = Append(loadCalls,
                                [handler |-> handler, pc |-> "awaitLoad",
                                 result |-> fault # "threw" /\ r.loadedCount > 0,
                                 during |-> 0, loads |-> TRUE])

\* The server process starts: ensureDocsLoaded() is called, and
\* server.connect after it returned.
startLoad ==
    /\ callArgs.fn = "load"
    /\ loadCalls = <<>>
    /\ \E fault \in LoadFaults : ensureDocsLoadedEnter("start", docData, docsLoaded, fault)
    /\ UNCHANGED << docsDir, nDirChanges, callVars, crawlVars, saveVars >>

\* A request is handled once the server is connected: search_docs with the
\* query "reload" clears docsLoaded and calls ensureDocsLoaded; search_docs
\* with another query and get_doc_detail call it when docData has no key.
toolLoad(handler) ==
    /\ callArgs.fn = "load"
    /\ loadCalls # <<>>
    /\ loadCalls[1].pc = "returned"
    /\ Len(loadCalls) < MaxLoadCalls
    /\ IF handler = "reload"
       THEN \E fault \in LoadFaults :
                ensureDocsLoadedEnter(handler, deleteKeys(docData), FALSE, fault)
       ELSE /\ docData = <<>>
            /\ \E fault \in LoadFaults :
                   ensureDocsLoadedEnter(handler, docData, docsLoaded, fault)
    /\ UNCHANGED << docsDir, nDirChanges, callVars, crawlVars, saveVars >>

\* The await of loadDocsFromDir returns or throws in call i: isLoadingDocs
\* is cleared and the result, or false from the catch block, is returned.
loadReturns(i) ==
    /\ callArgs.fn = "load"
    /\ loadCalls[i].pc = "awaitLoad"
    /\ isLoadingDocs' = FALSE
    /\ loadCalls' = [loadCalls EXCEPT ![i].pc = "returned"]
    /\ UNCHANGED << docData, docsLoaded, docsDir, nDirChanges, callVars,
                    crawlVars, saveVars >>

\* The 100 ms timer of the waiting call i fires with isLoadingDocs cleared:
\* the loop ends and docsLoaded is returned.
waitReturns(i) ==
    /\ callArgs.fn = "load"
    /\ loadCalls[i].pc = "waiting"
    /\ ~ isLoadingDocs
    /\ loadCalls' = [loadCalls EXCEPT ![i].pc = "returned", ![i].result = docsLoaded]
    /\ UNCHANGED << docData, docsLoaded, docsDir, nDirChanges, isLoadingDocs,
                    callVars, crawlVars, saveVars >>

\* The server process and the requests it handles at the same time, its docs
\* directory holding no file or alpha-docs.json.
InitLoading ==
    /\ CrawlIdle
    /\ tasks = <<>>
    /\ SaveInit
    /\ storeFile = NoFile
    /\ callArgs = [fn |-> "load"]
    /\ callResult = <<>>
    /\ docData = <<>>
    /\ docsLoaded = FALSE
    /\ docsDir \in { <<>> } \cup { ("alpha-docs" :> t) : t \in LoadTexts }
    /\ nDirChanges = 0
    /\ isLoadingDocs = FALSE
    /\ loadCalls = <<>>

NextLoading ==
    \/ startLoad
    \/ \E handler \in {"reload", "search_docs", "get_doc_detail"} : toolLoad(handler)
    \/ \E i \in DOMAIN loadCalls : loadReturns(i)
    \/ \E i \in DOMAIN loadCalls : waitReturns(i)
    \/ \E text \in LoadTexts : writeDoc("alpha-docs", text)

SpecLoading == InitLoading /\ [][NextLoading]_vars

\* C40: at most one call of ensureDocsLoaded is loading at a time; a call
\* that began while another call was loading has begun no load of its own
\* and, once it has returned, has returned what that load returned; and
\* isLoadingDocs is set only while a load is awaited.
C40_OneLoadAtATime ==
    /\ Cardinality({i \in DOMAIN loadCalls : loadCalls[i].pc = "awaitLoad"}) <= 1
    /\ isLoadingDocs <=> (loadingCall # 0)
    /\ \A i \in DOMAIN loadCalls :
          loadCalls[i].during # 0
              => /\ ~ loadCalls[i].loads
                 /\ loadCalls[i].pc = "returned"
                        => loadCalls[i].result = loadCalls[loadCalls[i].during].result

====
